---- MODULE Spec2Model ----
(***************************************************************************)
(* A model of github.com/apstndb/spannerplan: the plan graph (QueryPlan),  *)
(* the node title formatter, the tree linearizer (buildTree), the row      *)
(* decoder (ProcessPlan) and the statistics extractor (stats.Extract).     *)
(*                                                                         *)
(* Go strings are modelled as TLA+ strings; Len, \o, Head, Tail and SubSeq *)
(* act on them character by character.  Go indexes planNodes from 0, TLA+  *)
(* sequences from 1: planNodes[i] is written plan[i + 1].                  *)
(***************************************************************************)
EXTENDS Integers, Sequences, FiniteSets, TLC

(***************************************************************************)
(* Characters.  NUL stands for the byte 0x00 and BAD for a byte that is    *)
(* not valid UTF-8; each is written as a printable character that no other *)
(* text of the model uses.  RUNEERR is U+FFFD, the replacement character.  *)
(* WIDE stands for a character that takes two columns, as an East Asian    *)
(* wide character does.                                                    *)
(***************************************************************************)
TAB == "\t"
NL == "\n"
QUOTE == "\""
BSL == "\\"
NUL == "@"
BAD == "#"
RUNEERR == "?"
WIDE == "%"

(***************************************************************************)
(* The strings package.                                                    *)
(***************************************************************************)
CharAt(s, i) == SubSeq(s, i, i)

HasPrefix(s, p) == Len(s) >= Len(p) /\ SubSeq(s, 1, Len(p)) = p

HasSuffix(s, p) == Len(s) >= Len(p) /\ SubSeq(s, Len(s) - Len(p) + 1, Len(s)) = p

TrimPrefix(s, p) == IF HasPrefix(s, p) THEN SubSeq(s, Len(p) + 1, Len(s)) ELSE s

TrimSuffix(s, p) == IF HasSuffix(s, p) THEN SubSeq(s, 1, Len(s) - Len(p)) ELSE s

\* The least element of a set of positions, 0 for the empty set.
Lowest(S) == IF S = {} THEN 0 ELSE CHOOSE j \in S : \A k \in S : j <= k

\* strings.IndexAny from position i on: the first position at or after i of
\* a character of the set chars, 0 when none.
FirstOf(s, i, chars) == Lowest({j \in i..Len(s) : SubSeq(s, j, j) \in chars})

\* strings.Index: the first position at which sep occurs in s, 0 when none
\* (Go returns -1; positions here are 1-based).
IndexFrom(s, sep, i) ==
    Lowest({j \in i..(Len(s) - Len(sep) + 1) : SubSeq(s, j, j + Len(sep) - 1) = sep})

Index(s, sep) == IndexFrom(s, sep, 1)

\* strings.Split for a non-empty separator.
RECURSIVE Split(_, _)
Split(s, sep) ==
    LET i == Index(s, sep)
    IN IF i = 0 THEN <<s>>
       ELSE <<SubSeq(s, 1, i - 1)>> \o Split(SubSeq(s, i + Len(sep), Len(s)), sep)

\* strings.Count for a non-empty separator.
Count(s, sep) == Len(Split(s, sep)) - 1

RECURSIVE Join(_, _)
Join(elems, sep) ==
    IF Len(elems) = 0 THEN ""
    ELSE IF Len(elems) = 1 THEN elems[1]
    ELSE elems[1] \o sep \o Join(Tail(elems), sep)

RECURSIVE Repeat(_, _)
Repeat(s, n) == IF n <= 0 THEN "" ELSE s \o Repeat(s, n - 1)

IsSpace(c) == c \in {" ", TAB, NL, "\r", "\f"}

\* strings.TrimSpace(s) == "": every character of s is white space.
IsBlank(s) == \A i \in 1..Len(s) : IsSpace(CharAt(s, i))

(***************************************************************************)
(* strconv: decimal text of a natural number and back.                     *)
(***************************************************************************)
Digits == "0123456789"

IsDigit(c) == Len(c) = 1 /\ Index(Digits, c) > 0

RECURSIVE Itoa(_)
Itoa(n) == IF n < 10 THEN CharAt(Digits, n + 1)
           ELSE Itoa(n \div 10) \o CharAt(Digits, (n % 10) + 1)

RECURSIVE Atoi(_)
Atoi(s) == IF Len(s) = 0 THEN 0
           ELSE 10 * Atoi(SubSeq(s, 1, Len(s) - 1)) + (Index(Digits, CharAt(s, Len(s))) - 1)

(***************************************************************************)
(* encoding/json on a Go string.  json.Marshal escapes the quote and the   *)
(* backslash, writes tab and newline as \t and \n, every other control     *)
(* character and the HTML characters <, > and & as \u00XX, and replaces a  *)
(* byte that is not valid UTF-8 by U+FFFD.                               *)
(***************************************************************************)
JSONEscapeChar(c) ==
    CASE c = QUOTE -> BSL \o QUOTE
      [] c = BSL   -> BSL \o BSL
      [] c = NL    -> BSL \o "n"
      [] c = TAB   -> BSL \o "t"
      [] c = "\r"  -> BSL \o "r"
      [] c = "\f"  -> BSL \o "f"
      [] c = NUL   -> BSL \o "u0000"
      [] c = "<"   -> BSL \o "u003c"
      [] c = ">"   -> BSL \o "u003e"
      [] c = "&"   -> BSL \o "u0026"
      [] c = BAD   -> BSL \o "ufffd"
      [] OTHER     -> c

\* Every character of s escaped; the characters before the first one that
\* needs an escape, at position i, are copied as they are.
RECURSIVE JSONEscape(_)
JSONEscapeAt(s, i) ==
    IF i = 0 THEN s
    ELSE SubSeq(s, 1, i - 1) \o JSONEscapeChar(SubSeq(s, i, i))
           \o JSONEscape(SubSeq(s, i + 1, Len(s)))

JSONEscape(s) ==
    JSONEscapeAt(s, Lowest({j \in 1..Len(s) :
                              JSONEscapeChar(SubSeq(s, j, j)) # SubSeq(s, j, j)}))

JSONMarshalString(s) == QUOTE \o JSONEscape(s) \o QUOTE

\* The character a \uXXXX escape stands for; "" for a code point outside the
\* characters of the model.
JSONUnicode(hex) ==
    CASE hex = "0000" -> NUL
      [] hex = "003c" -> "<"
      [] hex = "003e" -> ">"
      [] hex = "0026" -> "&"
      [] hex = "fffd" -> RUNEERR
      [] OTHER        -> ""

\* The character a two-character escape \e stands for; "" when e is no escape.
JSONSimpleEscape(e) ==
    CASE e = QUOTE -> QUOTE
      [] e = BSL   -> BSL
      [] e = "/"   -> "/"
      [] e = "n"   -> NL
      [] e = "t"   -> TAB
      [] e = "r"   -> "\r"
      [] e = "f"   -> "\f"
      [] OTHER     -> ""

\* The body of a JSON string literal (between its quotes) unescaped:
\* [ok, v].  A raw quote or a raw control character inside is an error.
\* The length of the escape at position i of t (one for an invalid byte).
EscapeLen(t, i) ==
    IF SubSeq(t, i, i) = BAD THEN 1
    ELSE IF i + 1 <= Len(t) /\ SubSeq(t, i + 1, i + 1) = "u" THEN 6
    ELSE 2

\* The character the escape at position i of t stands for; "" when there
\* is no escape at i: a raw quote, a raw control character, a backslash
\* that nothing valid follows.
EscapeChar(t, i) ==
    IF SubSeq(t, i, i) = BAD THEN RUNEERR
    ELSE IF SubSeq(t, i, i) # BSL \/ Len(t) < i + 1 THEN ""
    ELSE IF SubSeq(t, i + 1, i + 1) # "u" THEN JSONSimpleEscape(SubSeq(t, i + 1, i + 1))
    ELSE IF Len(t) < i + 5 THEN ""
    ELSE JSONUnicode(SubSeq(t, i + 2, i + 5))

\* The text p before what r holds.
JSONPrepend(p, r) == [ok |-> r.ok, v |-> p \o r.v]

\* The characters before the first backslash, raw quote, raw control
\* character or invalid byte, at position i, stand for themselves; e is what
\* the escape at i stands for.
RECURSIVE JSONUnescape(_)
JSONUnescapeAt(t, i, e) ==
    IF i = 0 THEN [ok |-> TRUE, v |-> t]
    ELSE IF e = "" THEN [ok |-> FALSE, v |-> SubSeq(t, 1, i - 1)]
    ELSE JSONPrepend(SubSeq(t, 1, i - 1) \o e,
                     JSONUnescape(SubSeq(t, i + EscapeLen(t, i), Len(t))))

JSONUnescapeFrom(t, i) == JSONUnescapeAt(t, i, IF i = 0 THEN "" ELSE EscapeChar(t, i))

JSONUnescape(t) ==
    JSONUnescapeFrom(t, FirstOf(t, 1, {BSL, BAD, QUOTE, TAB, NL, NUL, "\r", "\f"}))

\* json.Unmarshal of data into a Go string: [ok, v].
JSONUnmarshalString(data) ==
    IF Len(data) < 2 \/ Head(data) # QUOTE \/ CharAt(data, Len(data)) # QUOTE
    THEN [ok |-> FALSE, v |-> ""]
    ELSE JSONUnescape(SubSeq(data, 2, Len(data) - 1))

\* The position of the quote closing the string literal that opens at the
\* first character of t; 0 when it is not closed.
RECURSIVE JSONStringEndFrom(_, _)
JSONStringEndAt(t, m) ==
    IF m = 0 THEN 0
    ELSE IF SubSeq(t, m, m) = QUOTE THEN m
    ELSE JSONStringEndFrom(t, m + 2)

JSONStringEndFrom(t, i) == JSONStringEndAt(t, FirstOf(t, i, {BSL, QUOTE}))

JSONStringEnd(t) == IF t = "" \/ Head(t) # QUOTE THEN 0 ELSE JSONStringEndFrom(t, 2)

\* The length of the run of digits t starts with.
RECURSIVE DigitRun(_)
DigitRun(t) == IF t = "" \/ ~IsDigit(Head(t)) THEN 0 ELSE 1 + DigitRun(Tail(t))

(***************************************************************************)
(* sort.Strings: byte-wise lexicographic order.  ByteOrder lists the       *)
(* characters of the model in increasing byte value.                       *)
(***************************************************************************)
ByteOrder ==
    NUL \o TAB \o NL \o "\f" \o "\r" \o " !" \o QUOTE
        \o "$%&'()*+,-./0123456789:;<=>ABCDEFGHIJKLMNOPQRSTUVWXYZ["
        \o BSL \o "]^_abcdefghijklmnopqrstuvwxyz{|}~" \o RUNEERR \o BAD

RECURSIVE StrLess(_, _)
StrLess(a, b) ==
    IF b = "" THEN FALSE
    ELSE IF a = "" THEN TRUE
    ELSE IF Head(a) = Head(b) THEN StrLess(Tail(a), Tail(b))
    ELSE Index(ByteOrder, Head(a)) < Index(ByteOrder, Head(b))

\* A variant of SortStrings that leaves the strings in the order given.
KeepOrder(xs) == xs

RECURSIVE InsertSorted(_, _)
InsertSorted(x, sorted) ==
    IF Len(sorted) = 0 THEN <<x>>
    ELSE IF StrLess(x, sorted[1]) THEN <<x>> \o sorted
    ELSE <<sorted[1]>> \o InsertSorted(x, Tail(sorted))

RECURSIVE SortStrings(_)
SortStrings(xs) == IF Len(xs) = 0 THEN <<>> ELSE InsertSorted(xs[1], SortStrings(Tail(xs)))

\* The elements of a finite set in some order: the order in which a Go map
\* is ranged over is not specified.
RECURSIVE SetToSeq(_)
SetToSeq(S) == IF S = {} THEN <<>>
               ELSE LET x == CHOOSE y \in S : TRUE IN <<x>> \o SetToSeq(S \ {x})

(***************************************************************************)
(* The plan graph: sppb.PlanNode, sppb.PlanNode_ChildLink and QueryPlan.   *)
(***************************************************************************)
RELATIONAL == "RELATIONAL"
SCALAR == "SCALAR"

\* The nil *PlanNode_ChildLink; its getters return the zero values.
NilLink == [isNil |-> TRUE, childIndex |-> 0, type |-> "", variable |-> ""]

\* The zero PlanNode_ChildLink value.
ZeroLink == [isNil |-> FALSE, childIndex |-> 0, type |-> "", variable |-> ""]

Link(c, t, v) == [isNil |-> FALSE, childIndex |-> c, type |-> t, variable |-> v]

\* A structpb string value and a structpb bool value of a metadata field.
StringValue(s) == [kind |-> "string", s |-> s, b |-> FALSE]
BoolValue(b) == [kind |-> "bool", s |-> "", b |-> b]

\* (*structpb.Value).GetStringValue of metadataFields[k]: "" for a missing
\* key and for a value that is not a string.
GetStringValue(fields, k) ==
    IF k \in DOMAIN fields /\ fields[k].kind = "string" THEN fields[k].s ELSE ""

NoMetadata == [k \in {} |-> StringValue("")]

\* The QueryPlan value New returns nil for.
NilQueryPlan == [isNil |-> TRUE, planNodes |-> <<>>, parentMap |-> [c \in {} |-> 0]]

ErrEmptyPlanNodes == "spannerplan: planNodes cannot be empty"

\* The (child index, parent index) pairs in the order New's two loops meet them.
RECURSIVE NodeLinkPairs(_, _)
NodeLinkPairs(node, links) ==
    IF Len(links) = 0 THEN <<>>
    ELSE <<[child |-> links[1].childIndex, parent |-> node.index]>>
             \o NodeLinkPairs(node, Tail(links))

RECURSIVE PlanLinkPairs(_)
PlanLinkPairs(planNodes) ==
    IF Len(planNodes) = 0 THEN <<>>
    ELSE NodeLinkPairs(planNodes[1], planNodes[1].childLinks) \o PlanLinkPairs(Tail(planNodes))

\* A variant of BuildParentMap in which the first pair of a child is kept.
RECURSIVE BuildParentMapFirstWins(_, _)
BuildParentMapFirstWins(pairs, m) ==
    IF Len(pairs) = 0 THEN m
    ELSE BuildParentMapFirstWins(Tail(pairs), m @@ (pairs[1].child :> pairs[1].parent))

\* parentMap[childIndex] = index for every pair in turn: a later pair with
\* the same child overwrites an earlier one.
RECURSIVE BuildParentMap(_, _)
BuildParentMap(pairs, m) ==
    IF Len(pairs) = 0 THEN m
    ELSE BuildParentMap(Tail(pairs), (pairs[1].child :> pairs[1].parent) @@ m)

\* New: [qp, err].
New(planNodes) ==
    IF Len(planNodes) = 0
    THEN [qp |-> NilQueryPlan, err |-> ErrEmptyPlanNodes]
    ELSE [qp |-> [isNil |-> FALSE, planNodes |-> planNodes,
                  parentMap |-> BuildParentMap(PlanLinkPairs(planNodes), [c \in {} |-> 0])],
          err |-> ""]

\* A variant of GetNodeByIndex that finds the node by what it displays: the
\* first node of the plan with the display name of node id.
GetNodeByDisplayName(qp, id) ==
    LET same == {i \in 1..Len(qp.planNodes) :
                   qp.planNodes[i].displayName = qp.planNodes[id + 1].displayName}
    IN qp.planNodes[CHOOSE i \in same : \A j \in same : i <= j]

GetNodeByIndex(qp, id) == qp.planNodes[id + 1]

\* A variant of GetNodeByChildLink that returns the root for every link.
GetRootNode(qp, link) == qp.planNodes[1]

GetNodeByChildLink(qp, link) == qp.planNodes[link.childIndex + 1]

IsFunction(qp, childLink) == GetNodeByChildLink(qp, childLink).displayName = "Function"

\* A variant of IsPredicate that looks at the link type alone.
IsPredicateByTypeOnly(qp, childLink) ==
    HasSuffix(childLink.type, "Condition") \/ childLink.type = "Split Range"

IsPredicate(qp, childLink) ==
    IF ~IsFunction(qp, childLink) THEN FALSE
    ELSE IF HasSuffix(childLink.type, "Condition") \/ childLink.type = "Split Range" THEN TRUE
    ELSE FALSE

\* A variant of IsVisible that shows every link.
IsVisibleEveryLink(qp, link) == TRUE

IsVisible(qp, link) ==
    GetNodeByChildLink(qp, link).kind = RELATIONAL \/ link.type = "Scalar"

\* A variant of VisibleChildLinks that lists the links last to first.
VisibleChildLinksReversed(qp, node) ==
    LET v == SelectSeq(node.childLinks, LAMBDA link : IsVisible(qp, link))
    IN [i \in 1..Len(v) |-> v[Len(v) + 1 - i]]

VisibleChildLinks(qp, node) == SelectSeq(node.childLinks, LAMBDA link : IsVisible(qp, link))

\* A missing key of a Go map reads as the zero value.
GetParentNodeByChildIndex(qp, index) ==
    qp.planNodes[(IF index \in DOMAIN qp.parentMap THEN qp.parentMap[index] ELSE 0) + 1]

GetParentNodeByChildLink(qp, link) == GetParentNodeByChildIndex(qp, link.childIndex)

GetLinkType(qp, link) ==
    IF link.type # "" THEN link.type
    ELSE LET parent == GetParentNodeByChildLink(qp, link) IN
      IF HasSuffix(parent.displayName, "Apply")
         /\ Len(parent.childLinks) > 0
         /\ parent.childLinks[1].childIndex = link.childIndex
      THEN "Input"
      ELSE ""

ResolveChildLink(qp, item) == [ChildLink |-> item, Child |-> GetNodeByChildLink(qp, item)]

HasStats(nodes) ==
    IF Len(nodes) = 0 THEN FALSE ELSE nodes[1].executionStats.present

(***************************************************************************)
(* NodeTitle and its options.                                              *)
(***************************************************************************)
ExecutionMethodFormatRaw == "ExecutionMethodFormatRaw"
ExecutionMethodFormatAngle == "ExecutionMethodFormatAngle"
TargetMetadataFormatRaw == "TargetMetadataFormatRaw"
TargetMetadataFormatOn == "TargetMetadataFormatOn"
KnownFlagFormatRaw == "KnownFlagFormatRaw"
KnownFlagFormatLabel == "KnownFlagFormatLabel"

knownBooleanFlagKeys == <<"Full scan", "split_ranges_aligned">>
targetMetadataKeys == <<"scan_target", "distribution_table", "table">>

Contains(seq, x) == \E i \in 1..Len(seq) : seq[i] = x

\* A nil inlineStatsFunc, and a callback given by the labels it returns for
\* each node index.
NilInlineStatsFunc == [isNil |-> TRUE, result |-> <<>>]

\* The zero value of option: what NodeTitle starts from before applying opts.
ZeroOption ==
    [executionMethodFormat |-> ExecutionMethodFormatRaw,
     targetMetadataFormat  |-> TargetMetadataFormatRaw,
     knownFlagFormat       |-> KnownFlagFormatRaw,
     compact               |-> FALSE,
     inlineStatsFunc       |-> NilInlineStatsFunc,
     hideMetadata          |-> FALSE]

encloseIfNotEmpty(open, input, close) == IF input = "" THEN "" ELSE open \o input \o close

joinIfNotEmpty(sep, input) == Join(SelectSeq(input, LAMBDA x : x # ""), sep)

\* The first non-empty string value among targetMetadataKeys, "" when none.
RECURSIVE FirstTarget(_, _)
FirstTarget(fields, keys) ==
    IF Len(keys) = 0 THEN ""
    ELSE IF GetStringValue(fields, keys[1]) # "" THEN GetStringValue(fields, keys[1])
    ELSE FirstTarget(fields, Tail(keys))

\* A variant of TitleEntry that consumes no key: every key gives the field
\* k: value.
TitleEntryOfEveryKey(o, fields, sep, k) ==
    [labels |-> <<>>, fields |-> <<k \o ":" \o sep \o GetStringValue(fields, k)>>]

\* One pass of the body of NodeTitle's loop over the metadata, for key k:
\* the labels and the fields it appends.
TitleEntry(o, fields, sep, k) ==
    LET none  == [labels |-> <<>>, fields |-> <<>>]
        plain ==
          IF o.knownFlagFormat # KnownFlagFormatRaw /\ Contains(knownBooleanFlagKeys, k)
          THEN [labels |-> IF GetStringValue(fields, k) = "true" THEN <<k>> ELSE <<>>,
                fields |-> <<>>]
          ELSE [labels |-> <<>>,
                fields |-> <<k \o ":" \o sep \o GetStringValue(fields, k)>>]
    IN IF o.targetMetadataFormat # TargetMetadataFormatRaw /\ Contains(targetMetadataKeys, k)
       THEN none
       ELSE CASE k \in {"call_type", "iterator_type"} -> none
              [] k = "scan_type" -> none
              [] k = "subquery_cluster_node" -> none
              [] k = "scan_target" ->
                   IF o.targetMetadataFormat # TargetMetadataFormatRaw THEN none
                   ELSE [labels |-> <<>>,
                         fields |-> <<TrimSuffix(GetStringValue(fields, "scan_type"), "Scan")
                                        \o ": " \o GetStringValue(fields, k)>>]
              [] k = "execution_method" ->
                   IF o.executionMethodFormat # ExecutionMethodFormatRaw THEN none ELSE plain
              [] k \in {"distribution_table", "table"} ->
                   IF o.targetMetadataFormat # TargetMetadataFormatRaw THEN none ELSE plain
              [] OTHER -> plain

RECURSIVE TitleEntries(_, _, _, _)
TitleEntries(o, fields, sep, keys) ==
    IF Len(keys) = 0 THEN [labels |-> <<>>, fields |-> <<>>]
    ELSE LET e == TitleEntry(o, fields, sep, keys[1])
             r == TitleEntries(o, fields, sep, Tail(keys))
         IN [labels |-> e.labels \o r.labels, fields |-> e.fields \o r.fields]

\* A Go map is ranged over in an order that is not specified and changes
\* from one range to the next: node.metadataRange is the order in which the
\* range of NodeTitle over the metadata of the node yields the keys.
NodeTitle(node, o) ==
    LET sep == IF ~o.compact THEN " " ELSE ""
        metadataFields == node.metadata
        executionMethod == GetStringValue(metadataFields, "execution_method")
        target == FirstTarget(metadataFields, targetMetadataKeys)
        operator == joinIfNotEmpty(" ",
            <<GetStringValue(metadataFields, "call_type"),
              GetStringValue(metadataFields, "iterator_type"),
              TrimSuffix(GetStringValue(metadataFields, "scan_type"), "Scan"),
              node.displayName,
              IF o.targetMetadataFormat = TargetMetadataFormatOn /\ Len(target) > 0
              THEN "on " \o target ELSE "">>)
        executionMethodPart ==
            IF o.executionMethodFormat = ExecutionMethodFormatAngle /\ Len(executionMethod) > 0
            THEN "<" \o executionMethod \o ">" ELSE ""
        entries ==
            IF ~o.hideMetadata
            THEN TitleEntries(o, metadataFields, sep, node.metadataRange)
            ELSE [labels |-> <<>>, fields |-> <<>>]
        inlineStats ==
            IF ~o.inlineStatsFunc.isNil THEN o.inlineStatsFunc.result[node.index + 1] ELSE <<>>
        labels == SortStrings(entries.labels)
        fields == SortStrings(entries.fields)
    IN joinIfNotEmpty(sep,
         <<operator, executionMethodPart,
           encloseIfNotEmpty("(", Join(labels \o fields \o inlineStats, "," \o sep), ")")>>)

(***************************************************************************)
(* encoding/json on a *sppb.PlanNode_ChildLink.  The generated struct tags *)
(* are child_index, type and variable, each with omitempty; a nil pointer  *)
(* marshals to null.                                                       *)
(***************************************************************************)
JSONMarshalLink(link) ==
    IF link.isNil THEN "null"
    ELSE "{" \o Join(
           (IF link.childIndex # 0
              THEN <<QUOTE \o "child_index" \o QUOTE \o ":" \o Itoa(link.childIndex)>> ELSE <<>>)
        \o (IF link.type # ""
              THEN <<QUOTE \o "type" \o QUOTE \o ":" \o JSONMarshalString(link.type)>> ELSE <<>>)
        \o (IF link.variable # ""
              THEN <<QUOTE \o "variable" \o QUOTE \o ":" \o JSONMarshalString(link.variable)>>
              ELSE <<>>),
           ",") \o "}"

JSONLinkError == [ok |-> FALSE, link |-> ZeroLink]

\* The members of a JSON object, t being the text after its "{" or after a
\* ",", stored into acc: [ok, link].  A key that is no field of the struct
\* is skipped; a value of the wrong type is an error.
RECURSIVE JSONLinkMembers(_, _)
JSONLinkMembers(t, acc) ==
    LET ke == JSONStringEnd(t) IN
    IF ke = 0 \/ CharAt(t, ke + 1) # ":" THEN JSONLinkError
    ELSE LET key  == JSONUnmarshalString(SubSeq(t, 1, ke))
             rest == SubSeq(t, ke + 2, Len(t))
             isStr == rest # "" /\ Head(rest) = QUOTE
             ve   == IF isStr THEN JSONStringEnd(rest) ELSE DigitRun(rest)
             str  == IF isStr /\ ve > 0 THEN JSONUnmarshalString(SubSeq(rest, 1, ve))
                     ELSE [ok |-> FALSE, v |-> ""]
             after == SubSeq(rest, ve + 1, Len(rest))
             next ==
               CASE key.v = "child_index" ->
                      IF isStr THEN JSONLinkError
                      ELSE [ok |-> TRUE, link |-> [acc EXCEPT !.childIndex = Atoi(SubSeq(rest, 1, ve))]]
                 [] key.v = "type" ->
                      IF ~str.ok THEN JSONLinkError
                      ELSE [ok |-> TRUE, link |-> [acc EXCEPT !.type = str.v]]
                 [] key.v = "variable" ->
                      IF ~str.ok THEN JSONLinkError
                      ELSE [ok |-> TRUE, link |-> [acc EXCEPT !.variable = str.v]]
                 [] OTHER -> [ok |-> isStr => str.ok, link |-> acc]
         IN IF ~key.ok \/ ve = 0 \/ ~next.ok THEN JSONLinkError
            ELSE IF after = "}" THEN next
            ELSE IF after # "" /\ Head(after) = "," THEN JSONLinkMembers(Tail(after), next.link)
            ELSE JSONLinkError

\* json.Unmarshal of data into a zero PlanNode_ChildLink: [ok, link].
JSONUnmarshalLink(data) ==
    IF data = "null" \/ data = "{}" THEN [ok |-> TRUE, link |-> ZeroLink]
    ELSE IF Len(data) < 2 \/ Head(data) # "{" THEN JSONLinkError
    ELSE JSONLinkMembers(Tail(data), ZeroLink)

(***************************************************************************)
(* runewidth.Condition.Wrap: a newline is put before the character that    *)
(* would make the line wider than w.  A control character has width 0,     *)
(* WIDE has width 2, every other character of the model width 1; ranging   *)
(* over a string turns a byte that is not valid UTF-8 into U+FFFD.         *)
(***************************************************************************)
RuneWidth(c) == IF c \in {NUL, TAB, NL, "\r", "\f"} THEN 0 ELSE IF c = WIDE THEN 2 ELSE 1

StringWidth(s) ==
    Cardinality({j \in 1..Len(s) : RuneWidth(CharAt(s, j)) = 1})
      + 2 * Cardinality({j \in 1..Len(s) : RuneWidth(CharAt(s, j)) = 2})

RECURSIVE WrapFrom(_, _, _)
WrapFrom(s, w, width) ==
    IF s = "" THEN ""
    ELSE LET r  == IF Head(s) = BAD THEN RUNEERR ELSE Head(s)
             cw == RuneWidth(r)
         IN IF r = NL THEN r \o WrapFrom(Tail(s), w, 0)
            ELSE IF width + cw > w THEN NL \o r \o WrapFrom(Tail(s), w, cw)
            ELSE r \o WrapFrom(Tail(s), w, width + cw)

Wrap(s, w) == WrapFrom(s, w, 0)

(***************************************************************************)
(* stats.Extract.  A statistics payload is a *structpb.Struct: absent      *)
(* (nil), or a mapping from field paths to string values.  The fields the  *)
(* ExecutionStats struct declares are those the design document lists.     *)
(***************************************************************************)
DeclaredStatFields ==
    {"rows.total", "scanned_rows.total", "filtered_rows.total",
     "execution_summary.num_executions", "latency", "cpu_time", "remote_calls.total"}

NoStats == [present |-> FALSE, fields |-> [f \in {} |-> ""]]

StatsPayload(fields) == [present |-> TRUE, fields |-> fields]

\* The zero ExecutionStats value.
ZeroExecutionStats == [f \in DeclaredStatFields |-> ""]

\* The nil *ExecutionStats.
NilExecutionStats == [isNil |-> TRUE, v |-> ZeroExecutionStats]

ErrUnknownField == "json: unknown field"

\* jsonRoundtrip into a zero ExecutionStats: [output, err].  json.Marshal of
\* a nil payload is null, which Decode stores nothing for.  With
\* DisallowUnknownFields a member the struct does not declare is an error;
\* the decoder records it and goes on storing the members that follow.
jsonRoundtrip(input, disallowUnknownFields) ==
    LET members == IF input.present THEN DOMAIN input.fields ELSE {}
    IN [output |-> [f \in DeclaredStatFields |->
                      IF f \in members THEN input.fields[f] ELSE ""],
        err    |-> IF disallowUnknownFields /\ members \ DeclaredStatFields # {}
                   THEN ErrUnknownField ELSE ""]

\* A variant of Extract that never asks the decoder to refuse unknown fields.
ExtractIgnoringFlag(node, disallowUnknownFields) ==
    [stats |-> [isNil |-> FALSE, v |-> jsonRoundtrip(node.executionStats, FALSE).output],
     err   |-> ""]

\* A variant of Extract that, asked to refuse unknown fields, also refuses a
\* node without a payload.
ExtractRequiringPayload(node, disallowUnknownFields) ==
    LET r == jsonRoundtrip(node.executionStats, disallowUnknownFields)
    IN IF r.err # "" \/ (disallowUnknownFields /\ ~node.executionStats.present)
       THEN [stats |-> NilExecutionStats, err |-> ErrUnknownField]
       ELSE [stats |-> [isNil |-> FALSE, v |-> r.output], err |-> ""]

\* stats.Extract: [stats, err].
Extract(node, disallowUnknownFields) ==
    LET r == jsonRoundtrip(node.executionStats, disallowUnknownFields)
    IN IF r.err # "" THEN [stats |-> NilExecutionStats, err |-> r.err]
       ELSE [stats |-> [isNil |-> FALSE, v |-> r.output], err |-> ""]

(***************************************************************************)
(* plantree: the options of ProcessPlan.                                   *)
(***************************************************************************)
NilWrapWidth == [isNil |-> TRUE, v |-> 0]

\* The options ProcessPlan starts from before applying opts.
DefaultOptions ==
    [disallowUnknownStats |-> FALSE,
     queryplanOptions     |-> ZeroOption,
     treeprintOptions     |-> [edgeTypeLink |-> "|", edgeTypeMid |-> "+-", edgeTypeEnd |-> "+-",
                               indentSize |-> 2, edgeSeparator |-> " "],
     compact              |-> FALSE,
     indentSize           |-> 2,
     wrapWidth            |-> NilWrapWidth]

DisallowUnknownStats(o) == [o EXCEPT !.disallowUnknownStats = TRUE]

WithWrapWidth(o, width) == [o EXCEPT !.wrapWidth = [isNil |-> FALSE, v |-> width]]

EnableCompact(o) ==
    [o EXCEPT !.indentSize = 0,
              !.compact = TRUE,
              !.queryplanOptions = [@ EXCEPT !.compact = TRUE],
              !.treeprintOptions = [edgeTypeLink |-> "|", edgeTypeMid |-> "+", edgeTypeEnd |-> "+",
                                    indentSize |-> 0, edgeSeparator |-> ""]]

(***************************************************************************)
(* The tree-drawing collaborator (treeprint).  A tree is the sequence of   *)
(* its nodes in the order they were added, each with its value and the     *)
(* position of its parent (0 for the root).                                *)
(***************************************************************************)
TreeNew(rootValue) == <<[value |-> rootValue, parent |-> 0]>>

TreeSetValue(tree, at, str) == [tree EXCEPT ![at].value = str]

\* AddBranch and AddNode: the new node is the last child of the node at.
TreeAdd(tree, at, str) == Append(tree, [value |-> str, parent |-> at])

TreeChildren(tree, at) ==
    LET ids == {i \in 1..Len(tree) : tree[i].parent = at}
        RECURSIVE Asc(_, _)
        Asc(S, from) == IF S = {} THEN <<>>
                        ELSE IF from \in S THEN <<from>> \o Asc(S \ {from}, from + 1)
                        ELSE Asc(S, from + 1)
    IN Asc(ids, 1)

\* The lines of one node: the first after the edge glyph, the others after
\* the padding that continues the branch art.
TreeValueLines(tpo, prefix, last, value) ==
    LET lines == Split(value, NL)
        edge  == IF last THEN tpo.edgeTypeEnd ELSE tpo.edgeTypeMid
        pad   == IF last THEN Repeat(" ", tpo.indentSize + 1)
                 ELSE tpo.edgeTypeLink \o Repeat(" ", tpo.indentSize)
    IN Join([i \in 1..Len(lines) |->
               IF i = 1 THEN prefix \o edge \o tpo.edgeSeparator \o lines[i]
               ELSE prefix \o pad \o lines[i]], NL) \o NL

RECURSIVE TreePrintNodes(_, _, _, _)
TreePrintNodes(tree, tpo, prefix, ids) ==
    IF Len(ids) = 0 THEN ""
    ELSE LET last == Len(ids) = 1
             pad  == IF last THEN Repeat(" ", tpo.indentSize + 1)
                     ELSE tpo.edgeTypeLink \o Repeat(" ", tpo.indentSize)
         IN TreeValueLines(tpo, prefix, last, tree[ids[1]].value)
              \o TreePrintNodes(tree, tpo, prefix \o pad, TreeChildren(tree, ids[1]))
              \o TreePrintNodes(tree, tpo, prefix, Tail(ids))

\* Tree.StringWithOptions: the root's value as it is, then its descendants.
TreeString(tree, tpo) ==
    tree[1].value \o NL \o TreePrintNodes(tree, tpo, "", TreeChildren(tree, 1))

(***************************************************************************)
(* buildTree: the text of a node and the payload that carries it through   *)
(* the tree-drawing collaborator.                                          *)
(***************************************************************************)
\* A variant of BuildNodeText that hands the wrapper the same width at every
\* level.
BuildNodeTextSameWidth(qp, link, level, opts) ==
    LET sep      == IF ~opts.compact THEN " " ELSE ""
        node     == GetNodeByChildLink(qp, link)
        linkType == GetLinkType(qp, link)
        nodeText == (IF linkType # "" THEN "[" \o linkType \o "]" \o sep ELSE "")
                      \o NodeTitle(node, opts.queryplanOptions)
    IN IF ~opts.wrapWidth.isNil
       THEN Wrap(nodeText, opts.wrapWidth.v - StringWidth(sep))
       ELSE nodeText

BuildNodeText(qp, link, level, opts) ==
    LET sep      == IF ~opts.compact THEN " " ELSE ""
        node     == GetNodeByChildLink(qp, link)
        linkType == GetLinkType(qp, link)
        nodeText == (IF linkType # "" THEN "[" \o linkType \o "]" \o sep ELSE "")
                      \o NodeTitle(node, opts.queryplanOptions)
    IN IF ~opts.wrapWidth.isNil
       THEN Wrap(nodeText, opts.wrapWidth.v - level * (opts.indentSize + 1) - StringWidth(sep))
       ELSE nodeText

\* A variant of EncodePayload that writes the text as it is.
EncodePayloadRaw(nodeText, link) ==
    Repeat(NL, Count(nodeText, NL)) \o TAB \o QUOTE \o nodeText \o QUOTE
      \o TAB \o JSONMarshalLink(link) \o NUL

\* Prefixed by tab and terminated by the null character to ease the split.
EncodePayload(nodeText, link) ==
    LET b            == JSONMarshalLink(link)
        newlineCount == Count(nodeText, NL)
        nodeTextJson == JSONMarshalString(nodeText)
    IN Repeat(NL, newlineCount) \o TAB \o nodeTextJson \o TAB \o b \o NUL

(***************************************************************************)
(* ProcessPlan: one fragment of the rendered tree decoded into a row.      *)
(***************************************************************************)
ErrUnexpectedFormat == "unexpected format, tree line"
ErrUnmarshal == "unexpected JSON unmarshal error, tree line"

NoRow == [ID |-> 0, TreePart |-> "", NodeText |-> "", Predicates |-> <<>>,
          ChildLinks |-> [t \in {} |-> <<>>], ExecutionStats |-> ZeroExecutionStats]

\* A variant of RowPredicates that takes every link to a Function.
RowPredicatesOfFunctions(qp, node) ==
    LET preds == SelectSeq(node.childLinks, LAMBDA cl : IsFunction(qp, cl))
    IN [i \in 1..Len(preds) |->
          preds[i].type \o ": " \o GetNodeByChildLink(qp, preds[i]).description]

\* "<link type>: <description>" of every child link IsPredicate accepts.
RowPredicates(qp, node) ==
    LET preds == SelectSeq(node.childLinks, LAMBDA cl : IsPredicate(qp, cl))
    IN [i \in 1..Len(preds) |->
          preds[i].type \o ": " \o GetNodeByChildLink(qp, preds[i]).description]

\* A variant of RowChildLinks that groups the resolved links to children of
\* either kind.
RowChildLinksOfEveryKind(qp, node) ==
    LET resolvedChildLinks == [i \in 1..Len(node.childLinks) |->
                                 ResolveChildLink(qp, node.childLinks[i])]
        types == {resolvedChildLinks[i].ChildLink.type : i \in 1..Len(resolvedChildLinks)}
    IN [t \in types |-> SelectSeq(resolvedChildLinks, LAMBDA item : item.ChildLink.type = t)]

\* lo.GroupBy of the resolved links to SCALAR children by link type.
RowChildLinks(qp, node) ==
    LET resolvedChildLinks == [i \in 1..Len(node.childLinks) |->
                                 ResolveChildLink(qp, node.childLinks[i])]
        scalarChildLinks == SelectSeq(resolvedChildLinks, LAMBDA item : item.Child.kind = SCALAR)
        types == {scalarChildLinks[i].ChildLink.type : i \in 1..Len(scalarChildLinks)}
    IN [t \in types |-> SelectSeq(scalarChildLinks, LAMBDA item : item.ChildLink.type = t)]

\* The body of ProcessPlan's loop for one fragment: [skip, err, row].
DecodeLine(qp, opts, line) ==
    IF IsBlank(line) THEN [skip |-> TRUE, err |-> "", row |-> NoRow]
    ELSE LET split == Split(line, TAB) IN
      IF Len(split) # 3 THEN [skip |-> FALSE, err |-> ErrUnexpectedFormat, row |-> NoRow]
      ELSE LET branchText == TrimPrefix(split[1], NL)
               nodeText   == JSONUnmarshalString(split[2])
               link       == JSONUnmarshalLink(split[3])
           IN IF ~nodeText.ok \/ ~link.ok
              THEN [skip |-> FALSE, err |-> ErrUnmarshal, row |-> NoRow]
              ELSE LET node == GetNodeByIndex(qp, link.link.childIndex)
                       executionStats == Extract(node, opts.disallowUnknownStats)
                   IN IF executionStats.err # ""
                      THEN [skip |-> FALSE, err |-> executionStats.err, row |-> NoRow]
                      ELSE [skip |-> FALSE, err |-> "",
                            row |-> [ID             |-> node.index,
                                     TreePart       |-> branchText,
                                     NodeText       |-> nodeText.v,
                                     Predicates     |-> RowPredicates(qp, node),
                                     ChildLinks     |-> RowChildLinks(qp, node),
                                     ExecutionStats |-> executionStats.stats.v]]

(***************************************************************************)
(* RowWithPredicates: the text of a row and its ID as the table shows it.  *)
(***************************************************************************)
\* A variant of Text that puts the whole of TreePart before NodeText.
TextOfPartsJoined(r) == r.TreePart \o r.NodeText

\* Text: the lines of NodeText, each after the line of TreePart at the same
\* position when there is one.
Text(r) ==
    LET treeLines == Split(r.TreePart, NL)
        nodeLines == Split(r.NodeText, NL)
    IN Join([i \in 1..Len(nodeLines) |->
               (IF Len(treeLines) > i - 1 THEN TrimSuffix(treeLines[i], NL) ELSE "")
                 \o nodeLines[i]], NL)

FormatID(r) == (IF Len(r.Predicates) # 0 THEN "*" ELSE "") \o Itoa(r.ID)

(***************************************************************************)
(* cmd/rendertree: the table definition.  A column is its name, its inline *)
(* setting and its MapFunc, given by what the function reads from the row: *)
(* FormatID, Text, a field of ExecutionStats (as it is or through          *)
(* secsToS), or a template whose execution fails.                          *)
(***************************************************************************)
inlineTypeUnspecified == ""
inlineTypeNever == "NEVER"
inlineTypeAlways == "ALWAYS"
inlineTypeCan == "CAN"

ErrTemplate == "template: can't evaluate field"

MapFormatID == [kind |-> "FormatID", field |-> ""]
MapText == [kind |-> "Text", field |-> ""]
MapStat(f) == [kind |-> "Stat", field |-> f]
MapSecsToS(f) == [kind |-> "secsToS", field |-> f]
MapFail == [kind |-> "Fail", field |-> ""]

columnRenderDef(name, mapFunc, inline) == [Name |-> name, MapFunc |-> mapFunc, Inline |-> inline]

\* A variant of shouldInline that treats an unspecified setting as CAN
\* whatever the column is named.
shouldInlineUnspecifiedAsCan(d, inline) ==
    CASE d.Inline = inlineTypeAlways -> TRUE
      [] d.Inline = inlineTypeCan -> inline
      [] d.Inline = inlineTypeUnspecified -> inline
      [] OTHER -> FALSE

\* A variant of shouldInline that never puts a CAN column in the title.
shouldInlineOnlyAlways(d, inline) == d.Inline = inlineTypeAlways

shouldInline(d, inline) ==
    CASE d.Inline = inlineTypeAlways -> TRUE
      [] d.Inline = inlineTypeCan -> inline
      [] d.Inline = inlineTypeUnspecified -> inline /\ ~Contains(<<"ID", "Operator">>, d.Name)
      [] OTHER -> FALSE

\* secsRe.ReplaceAllString(fmt.Sprint(v), "s") with secsRe = `secs$`.
secsToS(v) == IF HasSuffix(v, "secs") THEN TrimSuffix(v, "secs") \o "s" ELSE v

\* d.MapFunc(row): [v, err].
ApplyMapFunc(d, row) ==
    CASE d.MapFunc.kind = "FormatID" -> [v |-> FormatID(row), err |-> ""]
      [] d.MapFunc.kind = "Text" -> [v |-> Text(row), err |-> ""]
      [] d.MapFunc.kind = "Stat" -> [v |-> row.ExecutionStats[d.MapFunc.field], err |-> ""]
      [] d.MapFunc.kind = "secsToS" ->
           [v |-> secsToS(row.ExecutionStats[d.MapFunc.field]), err |-> ""]
      [] OTHER -> [v |-> "", err |-> ErrTemplate]

idRenderDef == columnRenderDef("ID", MapFormatID, inlineTypeNever)
operatorRenderDef == columnRenderDef("Operator", MapText, inlineTypeNever)

withStatsToRenderDefMap(withStats) ==
    IF ~withStats THEN <<idRenderDef, operatorRenderDef>>
    ELSE <<idRenderDef, operatorRenderDef,
           columnRenderDef("Rows", MapStat("rows.total"), inlineTypeUnspecified),
           columnRenderDef("Exec.", MapStat("execution_summary.num_executions"),
                           inlineTypeUnspecified),
           columnRenderDef("Latency", MapSecsToS("latency"), inlineTypeUnspecified)>>

ColumnNames(columns) == [i \in 1..Len(columns) |-> columns[i].Name]

\* tableRenderDef.ColumnMapFunc: [columns, err]; the first failing MapFunc
\* ends it.
RECURSIVE ColumnMapFunc(_, _)
ColumnMapFunc(columns, row) ==
    IF Len(columns) = 0 THEN [columns |-> <<>>, err |-> ""]
    ELSE LET r == ApplyMapFunc(columns[1], row) IN
         IF r.err # "" THEN [columns |-> <<>>, err |-> r.err]
         ELSE LET rest == ColumnMapFunc(Tail(columns), row) IN
              IF rest.err # "" THEN rest
              ELSE [columns |-> <<r.v>> \o rest.columns, err |-> ""]

explainModePlan == "PLAN"
explainModeProfile == "PROFILE"
explainModeAuto == "AUTO"

\* A variant of shouldRenderWithStats that looks for statistics on any node.
shouldRenderWithStatsAnyNode(nodes, parsedMode) ==
    CASE parsedMode = explainModePlan -> FALSE
      [] parsedMode = explainModeProfile -> TRUE
      [] OTHER -> \E i \in 1..Len(nodes) : nodes[i].executionStats.present

shouldRenderWithStats(nodes, parsedMode) ==
    CASE parsedMode = explainModePlan -> FALSE
      [] parsedMode = explainModeProfile -> TRUE
      [] OTHER -> HasStats(nodes)

\* The function inlineStatsFuncFromTableRenderDef returns, applied to node:
\* the labels, and whether the call logged "failed to extract execution
\* stats".
InlineStatsOfNode(disallowUnknownStats, columns, inlineStats, node) ==
    LET executionStats == Extract(node, disallowUnknownStats)
        row == [NoRow EXCEPT !.ExecutionStats = executionStats.stats.v]
        inlined == SelectSeq(columns, LAMBDA def :
                     /\ shouldInline(def, inlineStats)
                     /\ ApplyMapFunc(def, row).err = ""
                     /\ ApplyMapFunc(def, row).v # "")
    IN IF executionStats.err # "" THEN [labels |-> <<>>, warned |-> TRUE]
       ELSE [labels |-> [i \in 1..Len(inlined) |->
                           inlined[i].Name \o "=" \o ApplyMapFunc(inlined[i], row).v],
             warned |-> FALSE]

\* inlineStatsFuncFromTableRenderDef(disallowUnknownStats, renderDef,
\* inlineStats): the callback, given by what it returns and whether it logs
\* for each node of the plan it is called on.
inlineStatsFuncFromTableRenderDef(disallowUnknownStats, columns, inlineStats, nodes) ==
    [isNil  |-> FALSE,
     result |-> [i \in 1..Len(nodes) |->
                   InlineStatsOfNode(disallowUnknownStats, columns, inlineStats, nodes[i]).labels],
     warned |-> [i \in 1..Len(nodes) |->
                   InlineStatsOfNode(disallowUnknownStats, columns, inlineStats, nodes[i]).warned]]

WithInlineStatsFunc(o, f) ==
    [o EXCEPT !.queryplanOptions = [@ EXCEPT !.inlineStatsFunc = f]]

(***************************************************************************)
(* printResult.  The table-rendering collaborator is given the column      *)
(* names and the values of each row; its output is modelled as one line of *)
(* cells per line of the values, without the rules and the padding.        *)
(***************************************************************************)
PrintPredicates == "predicates"
PrintTyped == "typed"
PrintFull == "full"

TableLine(cells) == "| " \o Join(cells, " | ") \o " |" \o NL

RECURSIVE MaxOf(_)
MaxOf(ns) == IF Len(ns) = 0 THEN 0
             ELSE IF ns[1] > MaxOf(Tail(ns)) THEN ns[1] ELSE MaxOf(Tail(ns))

\* One row of the table: a value of several lines takes several lines.
TableRow(values) ==
    LET cells  == [i \in 1..Len(values) |-> Split(values[i], NL)]
        height == MaxOf([i \in 1..Len(values) |-> Len(cells[i])])
        lines  == [j \in 1..height |->
                     TableLine([i \in 1..Len(values) |->
                                  IF j <= Len(cells[i]) THEN cells[i][j] ELSE ""])]
    IN Join(lines, "")

\* fmt.Sprintf("%*d:", maxIDLength, row.ID)
PadID(maxIDLength, id) ==
    Repeat(" ", maxIDLength - Len(Itoa(id))) \o Itoa(id) \o ":"

\* The lines of the predicates of one row.
PredicateLines(maxIDLength, row) ==
    [i \in 1..Len(row.Predicates) |->
       (IF i = 1 THEN PadID(maxIDLength, row.ID) ELSE Repeat(" ", maxIDLength + 1))
         \o " " \o row.Predicates[i]]

\* The description of the operands of one link type, "$var=" before those
\* that have a variable.
JoinChildLinks(childLinks) ==
    Join([i \in 1..Len(childLinks) |->
            IF childLinks[i].ChildLink.variable # ""
            THEN "$" \o childLinks[i].ChildLink.variable \o "=" \o childLinks[i].Child.description
            ELSE childLinks[i].Child.description], ", ")

\* The lines of the parameters of one row, over its link types in sorted
\* order; i counts the lines already written for the row.
RECURSIVE ParameterLines(_, _, _, _, _)
ParameterLines(maxIDLength, row, printMode, types, i) ==
    IF Len(types) = 0 THEN <<>>
    ELSE LET typ  == types[1]
             join == JoinChildLinks(row.ChildLinks[typ])
             prefix == IF i = 0 THEN PadID(maxIDLength, row.ID)
                       ELSE Repeat(" ", maxIDLength + 1)
         IN IF (printMode # PrintFull /\ typ = "") \/ join = ""
            THEN ParameterLines(maxIDLength, row, printMode, Tail(types), i)
            ELSE <<prefix \o " " \o (IF typ # "" THEN typ \o ": " ELSE "") \o join>>
                   \o ParameterLines(maxIDLength, row, printMode, Tail(types), i + 1)

RECURSIVE FlattenLines(_)
FlattenLines(ss) == IF Len(ss) = 0 THEN <<>> ELSE ss[1] \o FlattenLines(Tail(ss))

\* printResult: [s, err].
printResult(columns, rows, printMode) ==
    LET mapped == [i \in 1..Len(rows) |-> ColumnMapFunc(columns, rows[i])]
        failed == \E i \in 1..Len(rows) : mapped[i].err # ""
        table  == IF Len(rows) > 0
                  THEN TableLine(ColumnNames(columns))
                         \o Join([i \in 1..Len(rows) |-> TableRow(mapped[i].columns)], "")
                  ELSE ""
        maxIDLength == MaxOf([i \in 1..Len(rows) |-> Len(Itoa(rows[i].ID))])
        predicates == FlattenLines([i \in 1..Len(rows) |-> PredicateLines(maxIDLength, rows[i])])
        parameters == FlattenLines([i \in 1..Len(rows) |->
                        ParameterLines(maxIDLength, rows[i], printMode,
                                       SortStrings(SetToSeq(DOMAIN rows[i].ChildLinks)), 0)])
        section(title, ls) ==
            IF Len(ls) > 0
            THEN title \o NL \o Join([i \in 1..Len(ls) |-> " " \o ls[i] \o NL], "")
            ELSE ""
    IN IF failed THEN [s |-> "", err |-> ErrTemplate]
       ELSE [s   |-> table \o
                     (IF printMode \in {PrintFull, PrintTyped}
                      THEN section("Node Parameters(identified by ID):", parameters)
                      ELSE section("Predicates(identified by ID):", predicates)),
             err |-> ""]

(***************************************************************************)
(* The inputs.  A plan is a list of nodes whose index is their position,   *)
(* every child link of which resolves to a node of the plan.  SizedPlans   *)
(* are the plans of at most MaxSize nodes and child links together whose   *)
(* links point forward (to a higher index): a node may have several        *)
(* parents and several links to one child.  SharedChildPlans are three-    *)
(* node plans in which a link may also lead back to the root.  TreePlans   *)
(* are trees of up to MaxTreeNodes relational nodes.                       *)
(***************************************************************************)
MaxSize == 5
MaxTreeNodes == 4

\* buildTree has no depth guard: the Go runtime ends the process when the
\* stack is exhausted.  The model ends a render that recurses deeper than
\* any plan without a cycle can.
MaxDepth == MaxSize + MaxTreeNodes

NodeTemplates ==
    {[kind |-> RELATIONAL, displayName |-> "Distributed Union"],
     [kind |-> SCALAR,     displayName |-> "Function"]}

LinkTypes == {"", "Scalar", "Seek Condition", "Split Range"}

PlanNode(i, tmpl, links, stats) ==
    [index          |-> i,
     kind           |-> tmpl.kind,
     displayName    |-> tmpl.displayName,
     childLinks     |-> links,
     metadata       |-> NoMetadata,
     metadataRange  |-> <<>>,
     description    |-> "$e" \o Itoa(i),
     executionStats |-> stats]

SeqsUpTo(S, n) == UNION {[1..k -> S] : k \in 0..n}

Edges(n) ==
    {e \in [owner : 0..(n - 1), child : 0..(n - 1), type : LinkTypes] : e.owner < e.child}

LinksOf(edges, i) ==
    LET own == SelectSeq(edges, LAMBDA e : e.owner = i)
    IN [k \in 1..Len(own) |-> Link(own[k].child, own[k].type, "")]

SizedPlans ==
    UNION {{[i \in 1..n |-> PlanNode(i - 1, tmpl[i], LinksOf(edges, i - 1), NoStats)] :
              tmpl \in [1..n -> NodeTemplates], edges \in SeqsUpTo(Edges(n), MaxSize - n)} :
           n \in 0..MaxSize}

\* Three-node plans of relational nodes in which a child may have several
\* parents, a node may link twice to the same child, and a link may lead
\* back to the root.
SharedLinks(children, ty) == [k \in 1..Len(children) |-> Link(children[k], ty, "")]

SharedChildPlans(names) ==
    {<<PlanNode(0, [kind |-> RELATIONAL, displayName |-> t[1]], SharedLinks(c0, ty[1]), NoStats),
       PlanNode(1, [kind |-> RELATIONAL, displayName |-> t[2]], SharedLinks(c1, ty[2]), NoStats),
       PlanNode(2, [kind |-> RELATIONAL, displayName |-> t[3]], SharedLinks(c2, ty[3]), NoStats)>> :
       t \in [1..3 -> names],
       ty \in [1..3 -> {"", "Scalar"}],
       c0 \in {<<2>>, <<1, 2>>, <<2, 1>>, <<1, 1>>},
       c1 \in {<<>>, <<2>>},
       c2 \in {<<>>, <<1>>, <<0>>}}

\* Trees of relational nodes: node i > 0 is a child of parent[i] < i, the
\* children of a node being listed by increasing or by decreasing index.
\* Each node has its own statistics.
TreeChildLinks(n, parent, i, rev) ==
    LET RECURSIVE Kids(_)
        Kids(j) == IF j >= n THEN <<>>
                   ELSE (IF parent[j] = i THEN <<Link(j, "", "")>> ELSE <<>>) \o Kids(j + 1)
        RECURSIVE Reverse(_)
        Reverse(q) == IF Len(q) = 0 THEN <<>> ELSE Reverse(Tail(q)) \o <<q[1]>>
    IN IF rev THEN Reverse(Kids(1)) ELSE Kids(1)

TreePlans ==
    UNION {{[i \in 1..n |->
               PlanNode(i - 1, [kind |-> RELATIONAL, displayName |-> "Scan"],
                        TreeChildLinks(n, parent, i - 1, rev),
                        StatsPayload([f \in {"latency"} |-> Itoa(i) \o " msecs"]))] :
              parent \in {f \in [1..(n - 1) -> 0..(n - 2)] : \A j \in 1..(n - 1) : f[j] < j},
              rev \in BOOLEAN} :
           n \in 2..MaxTreeNodes}

Plans ==
    SizedPlans \cup TreePlans \cup SharedChildPlans({"Cross Apply", "Distributed Union"})

OptionSets == {DefaultOptions, EnableCompact(DefaultOptions)}

(***************************************************************************)
(* The render: New, then ProcessPlan (buildTree call by call, the tree     *)
(* drawn, the fragments decoded one by one).                               *)
(***************************************************************************)
VARIABLES
    planNodes,  \* the input node list
    opts,       \* the options of ProcessPlan, applied
    pc,         \* where the render is
    qp,         \* the QueryPlan New returned
    stack,      \* buildTree: the pending calls, innermost last
    tree,       \* the treeprint tree
    lines,      \* ProcessPlan: the fragments not decoded yet
    result,     \* ProcessPlan: the rows decoded so far
    rows,       \* the rows ProcessPlan returned
    err,        \* the error New or ProcessPlan returned, "" for nil
    call,       \* a single function called on its own: its name and arguments
    ret         \* what that call returned

vars == <<planNodes, opts, pc, qp, stack, tree, lines, result, rows, err, call, ret>>

NoCall == [op |-> ""]
NoRet == [op |-> ""]

Init ==
    /\ planNodes \in Plans
    /\ opts \in OptionSets
    /\ pc = "New"
    /\ qp = NilQueryPlan
    /\ stack = <<>>
    /\ tree = <<>>
    /\ lines = <<>>
    /\ result = <<>>
    /\ rows = <<>>
    /\ err = ""
    /\ call = NoCall
    /\ ret = NoRet

\* renderTreeImpl: qp, err := spannerplan.New(planNodes).
CallNew ==
    /\ pc = "New"
    /\ LET r == New(planNodes) IN
         /\ qp' = r.qp
         /\ err' = r.err
         /\ pc' = IF r.err # "" THEN "done" ELSE "ProcessPlan"
    /\ UNCHANGED <<planNodes, opts, stack, tree, lines, result, rows, call, ret>>

\* ProcessPlan up to its call of buildTree(qp, tree, nil, 0, &o).  The value
\* treeprint.New gives the root is the collaborator's.
ProcessPlanBegin ==
    /\ pc = "ProcessPlan"
    /\ \E rootValue \in {".", ""} : tree' = TreeNew(rootValue)
    /\ stack' = <<[tree |-> 1, links |-> <<NilLink>>, level |-> 0]>>
    /\ pc' = "buildTree"
    /\ UNCHANGED <<planNodes, opts, qp, lines, result, rows, err, call, ret>>

\* The frames whose loop over the visible child links has ended return.
RECURSIVE PopReturned(_)
PopReturned(st) ==
    IF Len(st) = 0 THEN st
    ELSE IF Len(st[Len(st)].links) = 0 THEN PopReturned(SubSeq(st, 1, Len(st) - 1))
    ELSE st

\* One call of buildTree, up to its loop over the visible child links, and
\* the returns that follow it.
BuildTreeCall ==
    /\ pc = "buildTree"
    /\ LET top   == stack[Len(stack)]
           link  == top.links[1]
           rest  == [stack EXCEPT ![Len(stack)].links = Tail(top.links)]
           node  == GetNodeByChildLink(qp, link)
           str   == EncodePayload(BuildNodeText(qp, link, top.level, opts), link)
           visibleChildLinks == VisibleChildLinks(qp, node)
           branch == IF node.index = 0 THEN top.tree
                     ELSE IF Len(visibleChildLinks) > 0 THEN Len(tree) + 1
                     ELSE top.tree
           after == IF ~IsVisible(qp, link) THEN PopReturned(rest)
                    ELSE PopReturned(Append(rest, [tree  |-> branch,
                                                   links |-> visibleChildLinks,
                                                   level |-> top.level + 1]))
       IN IF top.level > MaxDepth
          THEN /\ pc' = "stack overflow"
               /\ UNCHANGED <<stack, tree>>
          ELSE /\ tree' = IF ~IsVisible(qp, link) THEN tree
                          ELSE IF node.index = 0 THEN TreeSetValue(tree, top.tree, str)
                          ELSE TreeAdd(tree, top.tree, str)
               /\ stack' = after
               /\ pc' = IF Len(after) = 0 THEN "StringWithOptions" ELSE "buildTree"
    /\ UNCHANGED <<planNodes, opts, qp, lines, result, rows, err, call, ret>>

\* strings.Split(tree.StringWithOptions(o.treeprintOptions...), "\000\n").
CallStringWithOptions ==
    /\ pc = "StringWithOptions"
    /\ lines' = Split(TreeString(tree, opts.treeprintOptions), NUL \o NL)
    /\ pc' = "decode"
    /\ UNCHANGED <<planNodes, opts, qp, stack, tree, result, rows, err, call, ret>>

\* A variant of ErrorRows that returns the rows decoded before the failure.
RowsDecodedSoFar(decoded) == decoded

\* The rows of ProcessPlan's "return nil, err".
ErrorRows(decoded) == <<>>

\* One pass of ProcessPlan's loop over the fragments.
DecodeNext ==
    /\ pc = "decode"
    /\ Len(lines) > 0
    /\ LET d == DecodeLine(qp, opts, lines[1]) IN
         IF d.err # ""
         THEN /\ rows' = ErrorRows(result)
              /\ err' = d.err
              /\ pc' = "done"
              /\ UNCHANGED <<lines, result>>
         ELSE /\ result' = IF d.skip THEN result ELSE Append(result, d.row)
              /\ lines' = Tail(lines)
              /\ UNCHANGED <<rows, err, pc>>
    /\ UNCHANGED <<planNodes, opts, qp, stack, tree, call, ret>>

\* return result, nil
ProcessPlanReturn ==
    /\ pc = "decode"
    /\ Len(lines) = 0
    /\ rows' = result
    /\ pc' = "done"
    /\ UNCHANGED <<planNodes, opts, qp, stack, tree, lines, result, err, call, ret>>

Next ==
    \/ CallNew
    \/ ProcessPlanBegin
    \/ BuildTreeCall
    \/ CallStringWithOptions
    \/ DecodeNext
    \/ ProcessPlanReturn

Spec == Init /\ [][Next]_vars

(***************************************************************************)
(* The render of two-node plans whose display names, and so whose titles,  *)
(* are text of at most MaxTitleLen characters of TitleAlphabet.  A display *)
(* name is a protobuf string: valid UTF-8.                                 *)
(***************************************************************************)
MaxTitleLen == 2

TitleAlphabet == {"a", " ", TAB, NL, QUOTE, BSL, NUL, "<"}

RECURSIVE TextsOfLen(_)
TextsOfLen(n) ==
    IF n = 0 THEN {""} ELSE {c \o t : c \in TitleAlphabet, t \in TextsOfLen(n - 1)}

Titles == UNION {TextsOfLen(n) : n \in 0..MaxTitleLen}

\* One of the two titles is any text, the other at most one character.
TitlePlans ==
    {<<PlanNode(0, [kind |-> RELATIONAL, displayName |-> t[1]], <<Link(1, "", "")>>, NoStats),
       PlanNode(1, [kind |-> RELATIONAL, displayName |-> t[2]], <<>>, NoStats)>> :
       t \in (Titles \X TextsOfLen(1)) \cup (TextsOfLen(1) \X Titles)
                \cup (Titles \X {""}) \cup ({""} \X Titles)}

InitCodec ==
    /\ planNodes \in TitlePlans
    /\ opts = DefaultOptions
    /\ pc = "New"
    /\ qp = NilQueryPlan
    /\ stack = <<>>
    /\ tree = <<>>
    /\ lines = <<>>
    /\ result = <<>>
    /\ rows = <<>>
    /\ err = ""
    /\ call = NoCall
    /\ ret = NoRet

SpecCodec == InitCodec /\ [][Next]_vars

(***************************************************************************)
(* IsPredicate and GetLinkType called on their own, on a link of a plan    *)
(* New has built or, for GetLinkType, on the nil link ProcessPlan passes   *)
(* for the root.  The plans are two-node plans over many display names and *)
(* link types, and three-node plans in which nodes share children.         *)
(***************************************************************************)
OwnerTemplates ==
    {[kind |-> RELATIONAL, displayName |-> "Cross Apply"],
     [kind |-> RELATIONAL, displayName |-> "Apply Mutations"],
     [kind |-> RELATIONAL, displayName |-> "Filter"],
     [kind |-> SCALAR,     displayName |-> "Function"]}

ChildTemplates ==
    {[kind |-> SCALAR,     displayName |-> "Function"],
     [kind |-> RELATIONAL, displayName |-> "Function"],
     [kind |-> SCALAR,     displayName |-> "Reference"],
     [kind |-> RELATIONAL, displayName |-> "Table Scan"]}

AllLinkTypes ==
    {"", "Scalar", "Aggregate", "Condition", "Seek Condition", "Residual Condition",
     "Conditions", "Split Range", "Split Ranges"}

NamedPlans ==
    {<<PlanNode(0, t0, <<Link(1, ty, "")>>, NoStats), PlanNode(1, t1, <<>>, NoStats)>> :
       t0 \in OwnerTemplates, t1 \in ChildTemplates, ty \in AllLinkTypes}

LinkPlans ==
    NamedPlans \cup SharedChildPlans({"Cross Apply", "Apply Mutations", "Filter"})

\* The links a caller can pass: link pos of node owner.
LinkCalls(plan) ==
    UNION {{[owner |-> i - 1, pos |-> k, link |-> plan[i].childLinks[k]] :
              k \in 1..Len(plan[i].childLinks)} : i \in 1..Len(plan)}

InitLink ==
    /\ planNodes \in LinkPlans
    /\ opts = DefaultOptions
    /\ pc = "call"
    /\ qp = New(planNodes).qp
    /\ stack = <<>>
    /\ tree = <<>>
    /\ lines = <<>>
    /\ result = <<>>
    /\ rows = <<>>
    /\ err = ""
    /\ call = NoCall
    /\ ret = NoRet

CallIsPredicate ==
    /\ pc = "call"
    /\ \E c \in LinkCalls(planNodes) :
         /\ call' = [op |-> "IsPredicate", owner |-> c.owner, pos |-> c.pos, link |-> c.link]
         /\ ret' = [op |-> "IsPredicate", v |-> IsPredicate(qp, c.link)]
    /\ pc' = "returned"
    /\ UNCHANGED <<planNodes, opts, qp, stack, tree, lines, result, rows, err>>

\* GetLinkType(link) for a link of the plan or for the nil link of the root.
CallGetLinkType ==
    /\ pc = "call"
    /\ \E c \in LinkCalls(planNodes) \cup {[owner |-> 0, pos |-> 0, link |-> NilLink]} :
         /\ call' = [op |-> "GetLinkType", owner |-> c.owner, pos |-> c.pos, link |-> c.link]
         /\ ret' = [op |-> "GetLinkType", v |-> GetLinkType(qp, c.link)]
    /\ pc' = "returned"
    /\ UNCHANGED <<planNodes, opts, qp, stack, tree, lines, result, rows, err>>

NextLink ==
    \/ CallIsPredicate
    \/ CallGetLinkType

SpecLink == InitLink /\ [][NextLink]_vars

(***************************************************************************)
(* stats.Extract called on its own, strict or lenient, on a node with no   *)
(* statistics or with a payload of any of the fields of StatNames, two of  *)
(* which ExecutionStats declares.                                          *)
(***************************************************************************)
StatNames == {"latency", "cpu_time", "peak_memory", "note"}

StatValues == {"1.5 msecs", "7"}

StatsPayloads ==
    {NoStats} \cup
    {StatsPayload(f) : f \in UNION {[S -> StatValues] : S \in SUBSET StatNames}}

StatsPlans ==
    {<<PlanNode(0, [kind |-> RELATIONAL, displayName |-> "Distributed Union"], <<>>, p)>> :
       p \in StatsPayloads}

InitStats ==
    /\ planNodes \in StatsPlans
    /\ opts \in {DefaultOptions, DisallowUnknownStats(DefaultOptions)}
    /\ pc = "call"
    /\ qp = New(planNodes).qp
    /\ stack = <<>>
    /\ tree = <<>>
    /\ lines = <<>>
    /\ result = <<>>
    /\ rows = <<>>
    /\ err = ""
    /\ call = NoCall
    /\ ret = NoRet

\* executionStats, err := stats.Extract(node, o.disallowUnknownStats)
CallExtract ==
    /\ pc = "call"
    /\ LET r == Extract(GetNodeByIndex(qp, 0), opts.disallowUnknownStats) IN
         /\ call' = [op |-> "Extract", disallowUnknownFields |-> opts.disallowUnknownStats]
         /\ ret' = [op |-> "Extract", stats |-> r.stats, err |-> r.err]
    /\ pc' = "returned"
    /\ UNCHANGED <<planNodes, opts, qp, stack, tree, lines, result, rows, err>>

NextStats == CallExtract

SpecStats == InitStats /\ [][NextStats]_vars

(***************************************************************************)
(* renderTreeImpl called on its own: the inline-stats callback is added to *)
(* the caller's options, then New, ProcessPlan and printResult.  The       *)
(* arguments are in call, what it returned in ret.  The plans are chains   *)
(* of up to MaxRenderNodes relational nodes, each without statistics, with *)
(* a payload of declared fields, or with a payload that has a field        *)
(* ExecutionStats does not declare.                                        *)
(***************************************************************************)
MaxRenderNodes == 3

RenderPayloads ==
    {NoStats,
     StatsPayload([f \in {"latency", "rows.total"} |->
                     IF f = "latency" THEN "1 msecs" ELSE "7"]),
     StatsPayload([f \in {"latency", "note"} |->
                     IF f = "latency" THEN "2 msecs" ELSE "x"])}

ChainPlans(payloads, n) ==
    {[i \in 1..n |->
        PlanNode(i - 1, [kind |-> RELATIONAL, displayName |-> "Scan"],
                 IF i < n THEN <<Link(i, "", "")>> ELSE <<>>, p[i])] :
       p \in [1..n -> payloads]}

RenderPlans == UNION {ChainPlans(RenderPayloads, n) : n \in 1..MaxRenderNodes}

\* Table definitions: the two built-in ones, and custom lists with every
\* inline setting, on statistics and on columns named ID and Operator, and
\* with a template that fails.
RenderDefs ==
    {withStatsToRenderDefMap(FALSE),
     withStatsToRenderDefMap(TRUE),
     <<columnRenderDef("ID", MapFormatID, inlineTypeUnspecified),
       columnRenderDef("Operator", MapText, inlineTypeUnspecified),
       columnRenderDef("Rows", MapStat("rows.total"), inlineTypeNever),
       columnRenderDef("Latency", MapSecsToS("latency"), inlineTypeCan),
       columnRenderDef("Raw", MapStat("latency"), inlineTypeUnspecified),
       columnRenderDef("Total", MapStat("rows.total"), inlineTypeAlways)>>,
     <<columnRenderDef("ID", MapFormatID, inlineTypeCan),
       columnRenderDef("Operator", MapText, inlineTypeUnspecified),
       columnRenderDef("Latency", MapStat("latency"), inlineTypeAlways),
       columnRenderDef("Bad", MapFail, inlineTypeCan)>>,
     <<columnRenderDef("ID", MapFormatID, inlineTypeNever),
       columnRenderDef("Operator", MapText, inlineTypeNever),
       columnRenderDef("Bad", MapFail, inlineTypeNever)>>}

RenderCalls ==
    [op : {"renderTreeImpl"}, renderDef : RenderDefs, printMode : {PrintPredicates},
     disallowUnknownStats : BOOLEAN, inline : BOOLEAN,
     opts : {DefaultOptions, DisallowUnknownStats(DefaultOptions)}]

InitRender ==
    /\ planNodes \in RenderPlans
    /\ call \in RenderCalls
    /\ opts = call.opts
    /\ pc = "renderTreeImpl"
    /\ qp = NilQueryPlan
    /\ stack = <<>>
    /\ tree = <<>>
    /\ lines = <<>>
    /\ result = <<>>
    /\ rows = <<>>
    /\ err = ""
    /\ ret = NoRet

\* renderTreeImpl: opts = append(opts, WithQueryPlanOptions(
\* WithInlineStatsFunc(inlineStatsFuncFromTableRenderDef(...)))).
RenderTreeImplBegin ==
    /\ pc = "renderTreeImpl"
    /\ opts' = WithInlineStatsFunc(call.opts,
                 inlineStatsFuncFromTableRenderDef(call.disallowUnknownStats, call.renderDef,
                                                   call.inline, planNodes))
    /\ pc' = "New"
    /\ UNCHANGED <<planNodes, qp, stack, tree, lines, result, rows, err, call, ret>>

\* renderTreeImpl after New and ProcessPlan: the error of either is
\* returned with an empty string, and otherwise what printResult gives for
\* the columns that are not inline.
RenderTreeImplReturn ==
    /\ pc = "done"
    /\ call.op = "renderTreeImpl"
    /\ LET columns == SelectSeq(call.renderDef, LAMBDA def : ~shouldInline(def, call.inline))
           r == printResult(columns, rows, call.printMode)
       IN ret' = IF err # "" THEN [op |-> "renderTreeImpl", s |-> "", err |-> err]
                 ELSE [op |-> "renderTreeImpl", s |-> r.s, err |-> r.err]
    /\ pc' = "returned"
    /\ UNCHANGED <<planNodes, opts, qp, stack, tree, lines, result, rows, err, call>>

NextRender ==
    \/ RenderTreeImplBegin
    \/ Next
    \/ RenderTreeImplReturn

SpecRender == InitRender /\ [][NextRender]_vars

(***************************************************************************)
(* renderTreeImpl called twice on the same plan.  The second call is given *)
(* the options of the first, or those options with the compact format      *)
(* switched on or off, and the range of NodeTitle over the metadata of a   *)
(* node may yield the keys in another order.  call.first keeps what the    *)
(* first call returned.                                                    *)
(***************************************************************************)
WithQueryPlanFormats(o, em, tm, kf) ==
    [o EXCEPT !.queryplanOptions =
        [@ EXCEPT !.executionMethodFormat = em, !.targetMetadataFormat = tm,
                  !.knownFlagFormat = kf]]

RangeOrders(S) ==
    {q \in [1..Cardinality(S) -> S] : \A i, j \in 1..Cardinality(S) : q[i] = q[j] => i = j}

StringFields(f) == [k \in DOMAIN f |-> StringValue(f[k])]

\* The metadata of the nodes: none; a known flag, a field and the execution
\* method; a scan with its target; two keys one of which is the other
\* followed by a colon and more.
MetadataSets ==
    {NoMetadata,
     StringFields([k \in {"Full scan", "m", "execution_method"} |->
                     CASE k = "Full scan" -> "true" [] k = "m" -> "R" [] OTHER -> "B"]),
     StringFields([k \in {"scan_type", "scan_target", "n"} |->
                     CASE k = "scan_type" -> "IndexScan" [] k = "scan_target" -> "T"
                       [] OTHER -> "0"]),
     StringFields([k \in {"k", "k:a"} |-> IF k = "k" THEN "b" ELSE "c"])}

WithMetadata(node, fields, range) ==
    [node EXCEPT !.metadata = fields, !.metadataRange = range]

\* Node 0 has a predicate (node 2) and two relational children, the first
\* of which (node 1) has a child of its own (node 3).
TwiceNodes ==
    <<PlanNode(0, [kind |-> RELATIONAL, displayName |-> "Union"],
               <<Link(2, "Split Range", ""), Link(1, "", ""), Link(4, "", "")>>, NoStats),
      PlanNode(1, [kind |-> RELATIONAL, displayName |-> "Filter"], <<Link(3, "", "")>>, NoStats),
      PlanNode(2, [kind |-> SCALAR, displayName |-> "Function"], <<>>, NoStats),
      PlanNode(3, [kind |-> RELATIONAL, displayName |-> "Scan"],
               <<Link(2, "Seek Condition", "v")>>, NoStats),
      PlanNode(4, [kind |-> RELATIONAL, displayName |-> "Scan"], <<>>, NoStats)>>

RangedNodes(node, metas) ==
    UNION {{WithMetadata(node, m, r) : r \in RangeOrders(DOMAIN m)} : m \in metas}

TwicePlans ==
    {[TwiceNodes EXCEPT ![1] = n0, ![4] = n3] :
       n0 \in RangedNodes(TwiceNodes[1], MetadataSets),
       n3 \in RangedNodes(TwiceNodes[4],
                 {NoMetadata, StringFields([k \in {"k", "k:a"} |-> IF k = "k" THEN "b" ELSE "c"])})}

\* The plans that differ from plan only in the order in which the metadata
\* of their nodes are ranged over.
RECURSIVE Reranged(_)
Reranged(plan) ==
    IF Len(plan) = 0 THEN {<<>>}
    ELSE {<<h>> \o t :
            h \in {[plan[1] EXCEPT !.metadataRange = r] :
                     r \in RangeOrders(DOMAIN plan[1].metadata)},
            t \in Reranged(Tail(plan))}

\* The options of the caller: the zero formats or those the command line
\* sets by default, normal or compact.
TwiceOptions ==
    {DefaultOptions,
     EnableCompact(DefaultOptions),
     WithQueryPlanFormats(DefaultOptions, ExecutionMethodFormatAngle, TargetMetadataFormatOn,
                          KnownFlagFormatLabel),
     WithQueryPlanFormats(EnableCompact(DefaultOptions), ExecutionMethodFormatAngle,
                          TargetMetadataFormatOn, KnownFlagFormatLabel)}

\* The options that differ from o at most in the compact format.
CompactOrNot(o) ==
    {p \in TwiceOptions :
       /\ p.queryplanOptions.executionMethodFormat = o.queryplanOptions.executionMethodFormat
       /\ p.queryplanOptions.targetMetadataFormat = o.queryplanOptions.targetMetadataFormat
       /\ p.queryplanOptions.knownFlagFormat = o.queryplanOptions.knownFlagFormat}

InitTwice ==
    /\ planNodes \in TwicePlans
    /\ call \in [op : {"renderTreeImpl"}, renderDef : {withStatsToRenderDefMap(FALSE)},
                  printMode : {PrintPredicates, PrintFull},
                  disallowUnknownStats : {FALSE}, inline : {FALSE},
                  opts : TwiceOptions, first : {NoRet}]
    /\ opts = call.opts
    /\ pc = "renderTreeImpl"
    /\ qp = NilQueryPlan
    /\ stack = <<>>
    /\ tree = <<>>
    /\ lines = <<>>
    /\ result = <<>>
    /\ rows = <<>>
    /\ err = ""
    /\ ret = NoRet

\* The second call, after the first has returned.
RenderAgain ==
    /\ pc = "returned"
    /\ call.first = NoRet
    /\ \E o \in CompactOrNot(call.opts) :
         /\ call' = [call EXCEPT !.opts = o,
                                 !.first = [op |-> "renderTreeImpl", planNodes |-> planNodes,
                                            opts |-> call.opts, rows |-> rows,
                                            s |-> ret.s, err |-> ret.err]]
         /\ opts' = o
    /\ planNodes' \in Reranged(planNodes)
    /\ pc' = "renderTreeImpl"
    /\ qp' = NilQueryPlan
    /\ stack' = <<>>
    /\ tree' = <<>>
    /\ lines' = <<>>
    /\ result' = <<>>
    /\ rows' = <<>>
    /\ err' = ""
    /\ ret' = NoRet

NextTwice ==
    \/ NextRender
    \/ RenderAgain

SpecTwice == InitTwice /\ [][NextTwice]_vars

(***************************************************************************)
(* What the specification says of a plan, stated on the node list alone.   *)
(***************************************************************************)
\* A child link is shown when it leads to a RELATIONAL node or is of type Scalar.
LinkShown(plan, link) ==
    plan[link.childIndex + 1].kind = RELATIONAL \/ link.type = "Scalar"

ShownLinks(plan, i) == SelectSeq(plan[i + 1].childLinks, LAMBDA l : LinkShown(plan, l))

RootShown(plan) == plan[1].kind = RELATIONAL

\* The nodes reachable from the root over shown links.
ReachableNodes(plan) ==
    LET step(S) == S \cup UNION {{ShownLinks(plan, i)[k].childIndex :
                                    k \in 1..Len(ShownLinks(plan, i))} : i \in S}
        RECURSIVE Grow(_)
        Grow(S) == IF step(S) = S THEN S ELSE Grow(step(S))
    IN Grow({0})

\* The depth-first pre-order walk from the root over shown links, a node
\* listed once for every path that reaches it.
RECURSIVE WalkFrom(_, _)
WalkFrom(plan, i) ==
    LET links == ShownLinks(plan, i)
        RECURSIVE Each(_)
        Each(k) == IF k > Len(links) THEN <<>>
                   ELSE WalkFrom(plan, links[k].childIndex) \o Each(k + 1)
    IN <<i>> \o Each(1)

PreOrder(plan) == IF RootShown(plan) THEN WalkFrom(plan, 0) ELSE <<>>

Returned == pc = "done" /\ ~qp.isNil /\ err = ""

\* The indexes of the nodes that link to child c.
ParentsOf(plan, c) ==
    {i \in 0..(Len(plan) - 1) :
       \E k \in 1..Len(plan[i + 1].childLinks) : plan[i + 1].childLinks[k].childIndex = c}

LinkedChildren(plan) == {c \in 0..(Len(plan) - 1) : ParentsOf(plan, c) # {}}

Max(S) == CHOOSE x \in S : \A y \in S : y <= x

\* The fields of the statistics payload of the node Extract was called on,
\* and those of them the specification does not list in ExecutionStats.
PayloadFields ==
    IF planNodes[1].executionStats.present THEN planNodes[1].executionStats.fields
    ELSE [f \in {} |-> ""]

ListedStatFields ==
    {"rows.total", "scanned_rows.total", "filtered_rows.total",
     "execution_summary.num_executions", "latency", "cpu_time", "remote_calls.total"}

HasUndeclaredField == DOMAIN PayloadFields \ ListedStatFields # {}

\* The link types of AllLinkTypes that end in "Condition", and the display
\* names of the templates that end in "Apply".
ConditionTypes == {"Condition", "Seek Condition", "Residual Condition"}

ApplyNames == {"Cross Apply"}

\* The link types of the plans that make a link to a Function a predicate.
PredicateLinkTypes == {"Seek Condition", "Split Range"}

\* The predicate strings the specification gives node i.
ExpectedPredicates(plan, i) ==
    LET preds == SelectSeq(plan[i + 1].childLinks,
                           LAMBDA l : /\ plan[l.childIndex + 1].displayName = "Function"
                                      /\ l.type \in PredicateLinkTypes)
    IN [k \in 1..Len(preds) |->
          preds[k].type \o ": " \o plan[preds[k].childIndex + 1].description]

\* The links of node i to SCALAR children, with the child, by link type.
ExpectedChildLinks(plan, i) ==
    LET scalar == SelectSeq(plan[i + 1].childLinks,
                            LAMBDA l : plan[l.childIndex + 1].kind = SCALAR)
    IN [t \in {scalar[k].type : k \in 1..Len(scalar)} |->
          LET oft == SelectSeq(scalar, LAMBDA l : l.type = t)
          IN [k \in 1..Len(oft) |->
                [ChildLink |-> oft[k], Child |-> plan[oft[k].childIndex + 1]]]]

\* The nodes of the treeprint tree in the order they are printed.
RECURSIVE TreeWalk(_, _)
TreeWalk(t, at) ==
    LET kids == TreeChildren(t, at)
        RECURSIVE Each(_)
        Each(k) == IF k > Len(kids) THEN <<>> ELSE TreeWalk(t, kids[k]) \o Each(k + 1)
    IN <<at>> \o Each(1)

\* The child index in the link descriptor a payload carries.
DescriptorChildIndex(payload) ==
    JSONUnmarshalLink(TrimSuffix(Split(payload, TAB)[3], NUL)).link.childIndex

(***************************************************************************)
(* The claims.                                                             *)
(***************************************************************************)
\* C1: whenever ProcessPlan has returned for a plan New accepted, it has
\* returned as many rows as there are nodes reachable from the root over
\* visible child links, also for a SCALAR root and for a node that several
\* visible links reach.
C1_RowPerReachableNode ==
    (pc = "done" /\ ~qp.isNil) => Len(rows) = Cardinality(ReachableNodes(planNodes))

\* C2: in every result of ProcessPlan a row other than the first is the row
\* of a RELATIONAL node or of a node that an earlier row's node reaches by
\* a link of type Scalar; a SCALAR node has exactly one row for every Scalar
\* link to it from a row's node, so none for a link of another type, and
\* such a link and its child, short description included, are in the
\* ChildLinks mapping of the parent's row under the link's type.
C2_RowsOnlyForVisible ==
    Returned =>
      /\ \A i \in 2..Len(rows) :
            \/ planNodes[rows[i].ID + 1].kind = RELATIONAL
            \/ \E j \in 1..(i - 1) : \E k \in 1..Len(planNodes[rows[j].ID + 1].childLinks) :
                  LET l == planNodes[rows[j].ID + 1].childLinks[k]
                  IN l.childIndex = rows[i].ID /\ l.type = "Scalar"
      /\ \A c \in 1..(Len(planNodes) - 1) :
            planNodes[c + 1].kind = SCALAR =>
              Cardinality({i \in 1..Len(rows) : rows[i].ID = c})
                = Cardinality({jk \in UNION {{<<j, k>> :
                                     k \in 1..Len(planNodes[rows[j].ID + 1].childLinks)} :
                                   j \in 1..Len(rows)} :
                     /\ planNodes[rows[jk[1]].ID + 1].childLinks[jk[2]].childIndex = c
                     /\ planNodes[rows[jk[1]].ID + 1].childLinks[jk[2]].type = "Scalar"})
      /\ \A i \in 1..Len(rows) : \A k \in 1..Len(planNodes[rows[i].ID + 1].childLinks) :
            LET l == planNodes[rows[i].ID + 1].childLinks[k]
                child == planNodes[l.childIndex + 1]
            IN (child.kind = SCALAR /\ l.type # "Scalar") =>
                 /\ l.type \in DOMAIN rows[i].ChildLinks
                 /\ \E m \in 1..Len(rows[i].ChildLinks[l.type]) :
                       /\ rows[i].ChildLinks[l.type][m].ChildLink = l
                       /\ rows[i].ChildLinks[l.type][m].Child.index = l.childIndex
                       /\ rows[i].ChildLinks[l.type][m].Child.description = child.description

\* A result with the row of a SCALAR node reached by a Scalar link, whose
\* parent also has a SCALAR child behind a link of another type.
C2_Witness ==
    /\ Returned
    /\ Len(rows) = 2
    /\ planNodes[rows[2].ID + 1].kind = SCALAR
    /\ \E k \in 1..Len(planNodes[1].childLinks) :
          /\ planNodes[1].childLinks[k].type = "Seek Condition"
          /\ planNodes[planNodes[1].childLinks[k].childIndex + 1].kind = SCALAR
          /\ planNodes[1].childLinks[k].childIndex # rows[2].ID

\* C3: IsPredicate(link) is true exactly when the child the link resolves
\* to has the display name "Function" and the link type ends in "Condition"
\* or is "Split Range"; false for any other link to a Function and for such
\* a link to a child that is not a Function.
C3_IsPredicate ==
    call.op = "IsPredicate" =>
      (ret.v <=> /\ planNodes[call.link.childIndex + 1].displayName = "Function"
                 /\ call.link.type \in ConditionTypes \cup {"Split Range"})

\* IsPredicate has accepted a Residual Condition link to a Function.
C3_Witness ==
    /\ call.op = "IsPredicate"
    /\ call.link.type = "Residual Condition"
    /\ planNodes[call.link.childIndex + 1].displayName = "Function"
    /\ ret.v = TRUE

\* C4: every row decoded so far has the ID, the predicates, the ChildLinks
\* and the statistics of the node whose index the link descriptor of its
\* payload carries, the payloads taken in the order the tree prints them,
\* whatever the title text is; so two rows with the same text that come from
\* the payloads of two nodes are the rows of those two nodes.
C4_RowFromDescriptor ==
    (pc \in {"decode", "done"} /\ err = "" /\ RootShown(planNodes)) =>
      /\ pc = "done" => rows = result
      /\ \A i \in 1..Len(result) :
            LET ci   == DescriptorChildIndex(tree[TreeWalk(tree, 1)[i]].value)
                node == planNodes[ci + 1]
            IN /\ result[i].ID = ci
               /\ result[i].Predicates = ExpectedPredicates(planNodes, ci)
               /\ result[i].ChildLinks = ExpectedChildLinks(planNodes, ci)
               /\ result[i].ExecutionStats["latency"]
                    = IF node.executionStats.present
                      THEN node.executionStats.fields["latency"] ELSE ""

\* Two rows with the same tree art and the same text, from two nodes with
\* different statistics.
C4_Witness ==
    /\ Returned
    /\ \E i, j \in 1..Len(rows) :
          /\ rows[i].NodeText = rows[j].NodeText
          /\ rows[i].TreePart = rows[j].TreePart
          /\ rows[i].ID # rows[j].ID
          /\ rows[i].ExecutionStats # rows[j].ExecutionStats

\* C5: the rows ProcessPlan returns are the nodes in depth-first pre-order
\* over visible child links, each node before its visible descendants and
\* the subtrees of a node in the order of its child-link list.
C5_RowsInPreOrder ==
    Returned =>
      /\ [i \in 1..Len(rows) |-> rows[i].ID] = PreOrder(planNodes)
      /\ Len(rows) > 0 => rows[1].ID = 0

\* A result of four rows in which a later sibling's subtree follows an
\* earlier sibling of higher index and its descendants.
C5_Witness ==
    /\ Returned
    /\ Len(rows) = 4
    /\ [i \in 1..4 |-> rows[i].ID] = <<0, 2, 3, 1>>

\* C6: the title buildTree encodes into a payload is the NodeText ProcessPlan
\* decodes, character for character, for any title text, with tabs,
\* newlines, double quotes, backslashes or null bytes in it, at the root and
\* under it; the render of such a plan never fails.
C6_TitleRoundTrip ==
    pc = "done" =>
      /\ err = ""
      /\ Len(rows) = Len(planNodes)
      /\ \A i \in 1..Len(rows) : rows[i].NodeText = planNodes[i].displayName

\* Both titles came back: a null byte at the root, a tab and a newline
\* under it.
C6_Witness ==
    /\ pc = "done"
    /\ Len(rows) = 2
    /\ rows[1].NodeText = NUL
    /\ rows[2].NodeText = TAB \o NL

\* C7: New fails with ErrEmptyPlanNodes and a nil plan exactly for the empty
\* node list; for any other list it returns no error and a plan whose
\* parentMap maps every child index some node links to, and no other, to
\* the last node in list order that links to it.
C7_NewAndParentMap ==
    pc # "New" =>
      /\ (Len(planNodes) = 0) <=> (qp.isNil /\ err = ErrEmptyPlanNodes)
      /\ Len(planNodes) = 0 => pc = "done" /\ rows = <<>>
      /\ Len(planNodes) > 0 =>
            /\ ~qp.isNil
            /\ pc = "ProcessPlan" => err = ""
            /\ qp.planNodes = planNodes
            /\ DOMAIN qp.parentMap = LinkedChildren(planNodes)
            /\ \A c \in LinkedChildren(planNodes) :
                  qp.parentMap[c] = Max(ParentsOf(planNodes, c))

\* New has returned a plan in which two different nodes link to node 2.
C7_Witness ==
    /\ pc = "ProcessPlan"
    /\ Len(planNodes) = 3
    /\ ParentsOf(planNodes, 2) = {0, 1}
    /\ qp.parentMap[2] = 1

\* C8: GetLinkType(link) is the link's own type when that is not empty;
\* otherwise it is "Input" exactly when the node that owns the link has a
\* display name ending in "Apply" and the link is the first of its child
\* links, and "" in every other case, the nil link of the root and a child
\* with several parents included.
C8_LinkTypeOfOwner ==
    call.op = "GetLinkType" =>
      ret.v = IF call.link.type # "" THEN call.link.type
              ELSE IF /\ ~call.link.isNil
                      /\ planNodes[call.owner + 1].displayName \in ApplyNames
                      /\ call.pos = 1
                   THEN "Input"
                   ELSE ""

\* C9: the Predicates of every row are the strings "<link type>: <short
\* description of the child>" of the child links of the row's node that lead
\* to a Function and whose type ends in Condition or is Split Range, in
\* child-link order, and nothing else; a RELATIONAL root "Distributed
\* Union" with one Split Range link to a SCALAR Function gives one row, of
\* id 0, with the one predicate "Split Range: <description>".
C9_PredicateStrings ==
    Returned =>
      /\ \A i \in 1..Len(rows) :
            rows[i].Predicates = ExpectedPredicates(planNodes, rows[i].ID)
      /\ ( /\ Len(planNodes) = 2
           /\ planNodes[1].kind = RELATIONAL
           /\ planNodes[1].childLinks = <<Link(1, "Split Range", "")>>
           /\ planNodes[2].kind = SCALAR
           /\ planNodes[2].displayName = "Function"
           /\ planNodes[2].childLinks = <<>> )
          => /\ Len(rows) = 1
             /\ rows[1].ID = 0
             /\ rows[1].Predicates = <<"Split Range: " \o planNodes[2].description>>

\* The one row of "Distributed Union" with a Split Range link to a Function.
C9_Witness ==
    /\ Returned
    /\ Len(planNodes) = 2
    /\ planNodes[1].displayName = "Distributed Union"
    /\ planNodes[1].childLinks = <<Link(1, "Split Range", "")>>
    /\ planNodes[2].displayName = "Function"
    /\ planNodes[2].childLinks = <<>>
    /\ Len(rows) = 1
    /\ Len(rows[1].Predicates) = 1

\* C10 as stated: for a payload with an undeclared field Extract returns an
\* error in strict mode, and no error and an aggregate without that field
\* in lenient mode; in both modes it returns an aggregate with the declared
\* fields of the payload populated.
C10_DeclaredPopulatedInBothModes ==
    (call.op = "Extract" /\ HasUndeclaredField) =>
      /\ call.disallowUnknownFields => ret.err # ""
      /\ ~call.disallowUnknownFields =>
            ret.err = "" /\ ~ret.stats.isNil /\ DOMAIN ret.stats.v = ListedStatFields
      /\ \A f \in DOMAIN PayloadFields \cap ListedStatFields :
            ~ret.stats.isNil /\ ret.stats.v[f] = PayloadFields[f]

\* C10: for a payload with an undeclared field Extract returns an error and
\* no aggregate at all in strict mode; in lenient mode it returns no error
\* and an aggregate that has the declared fields only, those of the payload
\* populated from it and the others zero.
C10_StrictFailsLenientDrops ==
    (call.op = "Extract" /\ HasUndeclaredField) =>
      /\ call.disallowUnknownFields => ret.err # "" /\ ret.stats.isNil
      /\ ~call.disallowUnknownFields =>
            /\ ret.err = ""
            /\ ~ret.stats.isNil
            /\ DOMAIN ret.stats.v = ListedStatFields
            /\ \A f \in ListedStatFields :
                  ret.stats.v[f] = IF f \in DOMAIN PayloadFields THEN PayloadFields[f] ELSE ""

\* Extract has failed in strict mode on a payload with an undeclared field
\* and a declared one.
C10_Witness ==
    /\ call.op = "Extract"
    /\ call.disallowUnknownFields
    /\ DOMAIN PayloadFields = {"latency", "note"}
    /\ ret.err # ""
    /\ ret.stats.isNil

\* The nodes of the plan that carry no statistics payload.
NodesWithoutStats == {i \in 1..Len(planNodes) : ~planNodes[i].executionStats.present}

\* C11: for a node with no statistics payload stats.Extract returns a
\* zero-valued ExecutionStats and no error, strict or lenient; so every row
\* ProcessPlan decodes for such a node has zero statistics, and on a plan
\* none of whose nodes has a payload ProcessPlan never returns the error of
\* stats extraction.
C11_AbsentPayloadZeroStats ==
    /\ \A i \in NodesWithoutStats : \A strict \in BOOLEAN :
          Extract(planNodes[i], strict) =
            [stats |-> [isNil |-> FALSE, v |-> ZeroExecutionStats], err |-> ""]
    /\ \A j \in 1..Len(result) :
          (result[j].ID + 1) \in NodesWithoutStats
            => result[j].ExecutionStats = ZeroExecutionStats
    /\ NodesWithoutStats = 1..Len(planNodes) => err # ErrUnknownField

\* A strict ProcessPlan has returned a row of zero statistics for each of
\* the three nodes of a plan without statistics.
C11_Witness ==
    /\ pc = "done"
    /\ opts.disallowUnknownStats
    /\ Len(planNodes) = 3
    /\ NodesWithoutStats = 1..3
    /\ err = ""
    /\ Len(rows) = 3
    /\ \A j \in 1..3 : rows[j].ExecutionStats = ZeroExecutionStats

\* The second of two calls of renderTreeImpl has returned.
ReturnedTwice == pc = "returned" /\ call.first # NoRet

\* s without the characters of the set drop.
RECURSIVE Without(_, _)
WithoutAt(s, drop, i) ==
    IF i = 0 THEN s ELSE SubSeq(s, 1, i - 1) \o Without(SubSeq(s, i + 1, Len(s)), drop)

Without(s, drop) == WithoutAt(s, drop, FirstOf(s, 1, drop))

\* Rows that differ only in white space of NodeText and in the spaces and
\* dashes of the branch art.
SameButGlyphs(r1, r2) ==
    /\ r1.ID = r2.ID
    /\ r1.Predicates = r2.Predicates
    /\ r1.ChildLinks = r2.ChildLinks
    /\ r1.ExecutionStats = r2.ExecutionStats
    /\ Without(r1.NodeText, {" ", NL}) = Without(r2.NodeText, {" ", NL})
    /\ Without(r1.TreePart, {" ", "-"}) = Without(r2.TreePart, {" ", "-"})

\* C12: for the same plan, ProcessPlan with EnableCompact and without it
\* return the same number of rows, in the same order, with the same IDs,
\* predicates and ChildLinks; the rows differ only in separator and white
\* space of NodeText and in the glyphs of TreePart.
C12_CompactSameRows ==
    (ReturnedTwice /\ call.opts.compact # call.first.opts.compact)
      => /\ err = call.first.err
         /\ Len(rows) = Len(call.first.rows)
         /\ \A j \in 1..Len(rows) : SameButGlyphs(rows[j], call.first.rows[j])

\* No node of the plan has a metadata key that is another of its keys
\* followed by a colon.
NoColonKeys ==
    \A i \in 1..Len(planNodes) : \A k \in DOMAIN planNodes[i].metadata : Index(k, ":") = 0

\* C12 on the plans no node of which has such a key: the rows of the two
\* results then differ in white space and glyphs only.
C12_CompactSameRowsNoColonKeys ==
    (ReturnedTwice /\ call.opts.compact # call.first.opts.compact /\ NoColonKeys)
      => /\ err = call.first.err
         /\ Len(rows) = Len(call.first.rows)
         /\ \A j \in 1..Len(rows) : SameButGlyphs(rows[j], call.first.rows[j])

\* C13: two calls of renderTreeImpl on the same plan with the same options
\* return the same rows from ProcessPlan, so the same titles, and the same
\* output, whatever the order in which the metadata of a node are ranged
\* over in each call.
C13_SameOutputTwice ==
    (ReturnedTwice /\ call.opts = call.first.opts)
      => /\ rows = call.first.rows
         /\ ret.s = call.first.s
         /\ ret.err = call.first.err

\* Two calls with the same options have returned the same text, the
\* metadata of node 0 having been ranged over in two different orders.
C13_Witness ==
    /\ ReturnedTwice
    /\ call.opts = call.first.opts
    /\ planNodes[1].metadataRange # call.first.planNodes[1].metadataRange
    /\ Len(planNodes[1].metadataRange) = 3
    /\ ret.err = ""
    /\ ret.s # ""
    /\ ret.s = call.first.s
    /\ Len(rows) = 4

\* renderTreeImpl has returned a table.
TableReturned == pc = "returned" /\ ret.err = "" /\ Len(rows) > 0

\* The names in the header of the table renderTreeImpl returned.
HeaderCells == Split(TrimSuffix(TrimPrefix(Split(ret.s, NL)[1], "| "), " |"), " | ")

InHeader(d) == Contains(HeaderCells, d.Name)

\* The node of row j has a field ExecutionStats does not list, which the
\* callback of the inline statistics was told to refuse.
InlineExtractFails(j) ==
    LET stats == planNodes[rows[j].ID + 1].executionStats
    IN call.disallowUnknownStats /\ stats.present /\ DOMAIN stats.fields \ ListedStatFields # {}

\* What column d shows for the statistics of row j, "" when its template
\* fails.
ColumnValue(d, j) ==
    LET r == ApplyMapFunc(d, [NoRow EXCEPT !.ExecutionStats = rows[j].ExecutionStats])
    IN IF r.err # "" THEN "" ELSE r.v

\* Column d is in the table and in no title.
ShownInTable(d) ==
    /\ InHeader(d)
    /\ \A j \in 1..Len(rows) : Index(rows[j].NodeText, d.Name \o "=") = 0

\* Column d is not in the table, and in the title of every row for which it
\* has a value.
ShownInline(d) ==
    /\ ~InHeader(d)
    /\ \A j \in 1..Len(rows) :
          (~InlineExtractFails(j) /\ ColumnValue(d, j) # "")
            => Index(rows[j].NodeText, d.Name \o "=" \o ColumnValue(d, j)) # 0

Columns == {call.renderDef[i] : i \in 1..Len(call.renderDef)}

UnspecifiedIDOrOperator ==
    {d \in Columns : d.Inline = inlineTypeUnspecified /\ d.Name \in {"ID", "Operator"}}

\* C15 as stated: a column named ID or Operator whose inline setting is
\* not specified is treated as ALWAYS, for both values of --inline-stats.
C15_IDAndOperatorAsAlways ==
    TableReturned => \A d \in UnspecifiedIDOrOperator : ShownInline(d)

\* What shouldInline does of C15's columns: a column named ID or Operator
\* whose inline setting is not specified is treated as NEVER, for both
\* values of --inline-stats: it is a column of the table and in no title.
C15_IDAndOperatorAsNever ==
    TableReturned => \A d \in UnspecifiedIDOrOperator : ShownInTable(d)

\* With --inline-stats a table with the unspecified columns ID and Operator
\* has been returned, a CAN column being inline.
C15_Witness ==
    /\ TableReturned
    /\ call.inline
    /\ Cardinality(UnspecifiedIDOrOperator) = 2
    /\ \A d \in UnspecifiedIDOrOperator : InHeader(d)
    /\ \E d \in Columns : d.Inline = inlineTypeCan /\ ~InHeader(d)

(***************************************************************************)
(* shouldRenderWithStats on node lists of every length from 0, whose nodes *)
(* carry no statistics, an empty payload or a payload with a field.        *)
(***************************************************************************)
MaxModeNodes == 3

ModePayloads ==
    {NoStats,
     StatsPayload([f \in {} |-> ""]),
     StatsPayload([f \in {"latency"} |-> "1 msecs"])}

ModePlans == UNION {ChainPlans(ModePayloads, n) : n \in 0..MaxModeNodes}

ExplainModes == {explainModePlan, explainModeProfile, explainModeAuto}

InitMode ==
    /\ planNodes \in ModePlans
    /\ call \in [op : {"shouldRenderWithStats"}, parsedMode : ExplainModes]
    /\ pc = "shouldRenderWithStats"
    /\ opts = DefaultOptions
    /\ qp = NilQueryPlan
    /\ stack = <<>>
    /\ tree = <<>>
    /\ lines = <<>>
    /\ result = <<>>
    /\ rows = <<>>
    /\ err = ""
    /\ ret = NoRet

CallShouldRenderWithStats ==
    /\ pc = "shouldRenderWithStats"
    /\ ret' = [op |-> "shouldRenderWithStats",
               v |-> shouldRenderWithStats(planNodes, call.parsedMode)]
    /\ pc' = "returned"
    /\ UNCHANGED <<planNodes, opts, qp, stack, tree, lines, result, rows, err, call>>

NextMode == CallShouldRenderWithStats

SpecMode == InitMode /\ [][NextMode]_vars

ModeReturned == pc = "returned" /\ ret.op = "shouldRenderWithStats"

\* C16: shouldRenderWithStats returns false in PLAN mode and true in PROFILE
\* mode whatever the plan contains, and in AUTO mode true exactly when the
\* node list is not empty and its first node has a statistics payload; the
\* statistics of the later nodes do not count.
C16_ShouldRenderWithStats ==
    ModeReturned =>
      /\ call.parsedMode = explainModePlan => ret.v = FALSE
      /\ call.parsedMode = explainModeProfile => ret.v = TRUE
      /\ call.parsedMode = explainModeAuto =>
           (ret.v <=> (Len(planNodes) > 0 /\ planNodes[1].executionStats.present))

\* AUTO mode has answered false on a plan whose first node has no statistics
\* and whose second node has some.
C16_Witness ==
    /\ ModeReturned
    /\ call.parsedMode = explainModeAuto
    /\ Len(planNodes) >= 2
    /\ ~planNodes[1].executionStats.present
    /\ planNodes[2].executionStats.present
    /\ ret.v = FALSE

\* C17: a render fully succeeds or fails atomically.  When ProcessPlan
\* returns an error it returns no rows, never the rows decoded before the
\* failure, and when renderTreeImpl returns an error it returns the empty
\* string; when ProcessPlan returns no error every fragment of the tree was
\* decoded and the rows are all the rows decoded.
C17_FailsAtomically ==
    /\ (pc \in {"done", "returned"} /\ err # "") => rows = <<>>
    /\ (pc \in {"done", "returned"} /\ err = "" /\ qp # NilQueryPlan)
         => (lines = <<>> /\ rows = result)
    /\ (pc = "returned" /\ ret.op = "renderTreeImpl" /\ ret.err # "") => ret.s = ""

\* renderTreeImpl has returned the error of a statistics extraction that
\* failed after a row had been decoded, with no rows and the empty string.
C17_Witness ==
    /\ pc = "returned"
    /\ ret.op = "renderTreeImpl"
    /\ err # ""
    /\ ret.err = err
    /\ Len(result) > 0
    /\ rows = <<>>
    /\ ret.s = ""

\* renderTreeImpl has returned the error of a column template that failed
\* on rows ProcessPlan had returned, with the empty string.
C17_ColumnMappingFailed ==
    /\ pc = "returned"
    /\ ret.op = "renderTreeImpl"
    /\ err = ""
    /\ ret.err = ErrTemplate
    /\ Len(rows) > 0
    /\ ret.s = ""

\* The extraction of the statistics of node i for its inline statistics
\* fails: the callback was told to refuse the fields ExecutionStats does not
\* list, and the payload of the node has one.
InlineFailure(i) ==
    LET stats == planNodes[i].executionStats
    IN call.disallowUnknownStats /\ stats.present /\ DOMAIN stats.fields \ ListedStatFields # {}

\* The same flag is given to ProcessPlan and to the callback of the inline
\* statistics, as run does with --disallow-unknown-stats.
CommandLineWiring == call.disallowUnknownStats = call.opts.disallowUnknownStats

RenderReturned == pc = "returned" /\ call.op = "renderTreeImpl"

\* C18 as stated: a failure of the extraction for the inline statistics of
\* a node does not abort the render, which completes and returns its
\* output, for every setting of the flag as the command line passes it.
C18_InlineFailureNeverAborts ==
    (RenderReturned /\ CommandLineWiring /\ \E i \in 1..Len(planNodes) : InlineFailure(i))
      => (err = "" /\ Len(rows) = Len(planNodes) /\ ret.s # "")

\* C18, amended: a failure of the extraction for the inline statistics of a
\* node is logged and the inline statistics of that node are skipped, and
\* the tree is still built.  The render completes and returns its output,
\* with the row of the node, when ProcessPlan's own extraction is lenient;
\* when ProcessPlan is strict as well, as with the command line's flag, its
\* own extraction fails on the node and the render returns that error and
\* no output.
C18_InlineFailureSkipped ==
    RenderReturned =>
      \A i \in 1..Len(planNodes) : InlineFailure(i) =>
        /\ opts.queryplanOptions.inlineStatsFunc.warned[i]
        /\ opts.queryplanOptions.inlineStatsFunc.result[i] = <<>>
        /\ Len(lines) + Len(result) > 0
        /\ ~opts.disallowUnknownStats =>
             /\ err = ""
             /\ \E j \in 1..Len(rows) : rows[j].ID = i - 1 /\ Index(rows[j].NodeText, "=") = 0
             /\ ret.err = "" => ret.s # ""
        /\ opts.disallowUnknownStats =>
             /\ err # ""
             /\ ret.err = err
             /\ rows = <<>>
             /\ ret.s = ""

\* A render whose callback refused the statistics of the second node, and
\* whose ProcessPlan was lenient, has returned a table: the first node has
\* its inline statistics and the second has none.
C18_Witness ==
    /\ RenderReturned
    /\ call.inline
    /\ Len(planNodes) = 2
    /\ ~InlineFailure(1)
    /\ InlineFailure(2)
    /\ ~opts.disallowUnknownStats
    /\ ret.err = ""
    /\ ret.s # ""
    /\ Len(rows) = 2
    /\ Index(rows[1].NodeText, "=") # 0
    /\ Index(rows[2].NodeText, "=") = 0

(***************************************************************************)
(* The command: run.  The flags are strings from small sets that hold, for *)
(* each enumerated flag, the default, a name in another case and a string  *)
(* that is no name of the flag; the standard input is a plan or text that  *)
(* is no plan; --custom is given by what customListToTableRenderDef makes  *)
(* of it.  call.read tells that the standard input has been read.          *)
(***************************************************************************)
LowerLetters == "abcdefghijklmnopqrstuvwxyz"
UpperLetters == "ABCDEFGHIJKLMNOPQRSTUVWXYZ"

\* The letter of `to' at the place c has in `from', c when it has none.
MapRune(c, from, to) ==
    IF \E i \in 1..Len(from) : SubSeq(from, i, i) = c
    THEN LET i == CHOOSE i \in 1..Len(from) : SubSeq(from, i, i) = c IN SubSeq(to, i, i)
    ELSE c

RECURSIVE ToUpper(_)
ToUpper(s) ==
    IF Len(s) = 0 THEN ""
    ELSE MapRune(SubSeq(s, 1, 1), LowerLetters, UpperLetters) \o ToUpper(SubSeq(s, 2, Len(s)))

RECURSIVE ToLower(_)
ToLower(s) ==
    IF Len(s) = 0 THEN ""
    ELSE MapRune(SubSeq(s, 1, 1), UpperLetters, LowerLetters) \o ToLower(SubSeq(s, 2, Len(s)))

ErrPrintMode == "unknown PrintMode"
ErrExplainMode == "invalid input: Must be one of AUTO, PLAN, PROFILE"
ErrExecutionMethodFormat == "invalid ExecutionMethodFormat, expect RAW or ANGLE"
ErrTargetMetadataFormat == "invalid TargetMetadataFormat, expect RAW or ON"
ErrKnownFlagFormat == "invalid KnownFlagFormat, expect RAW or LABEL"
ErrMutuallyExclusive == "--full-scan and --known-flag are mutually exclusive."
ErrInvalidInput == "invalid input at protoyaml.Unmarshal"
ErrCustom == "invalid custom column"

\* parsePrintMode: [v, err].
parsePrintMode(s) ==
    CASE ToLower(s) = "predicates" -> [v |-> PrintPredicates, err |-> ""]
      [] ToLower(s) = "typed" -> [v |-> PrintTyped, err |-> ""]
      [] ToLower(s) = "full" -> [v |-> PrintFull, err |-> ""]
      [] OTHER -> [v |-> "", err |-> ErrPrintMode]

\* parseExplainMode: [v, err].
parseExplainMode(s) ==
    CASE ToUpper(s) = "PLAN" -> [v |-> explainModePlan, err |-> ""]
      [] ToUpper(s) = "PROFILE" -> [v |-> explainModeProfile, err |-> ""]
      [] ToUpper(s) = "AUTO" -> [v |-> explainModeAuto, err |-> ""]
      [] OTHER -> [v |-> "", err |-> ErrExplainMode]

ParseExecutionMethodFormat(s) ==
    CASE ToUpper(s) = "RAW" -> [v |-> ExecutionMethodFormatRaw, err |-> ""]
      [] ToUpper(s) = "ANGLE" -> [v |-> ExecutionMethodFormatAngle, err |-> ""]
      [] OTHER -> [v |-> ExecutionMethodFormatRaw, err |-> ErrExecutionMethodFormat]

ParseTargetMetadataFormat(s) ==
    CASE ToUpper(s) = "RAW" -> [v |-> TargetMetadataFormatRaw, err |-> ""]
      [] ToUpper(s) = "ON" -> [v |-> TargetMetadataFormatOn, err |-> ""]
      [] OTHER -> [v |-> TargetMetadataFormatRaw, err |-> ErrTargetMetadataFormat]

\* A variant of ParseKnownFlagFormat that takes every string it does not
\* know for LABEL.
ParseKnownFlagFormatDefaulting(s) ==
    CASE ToUpper(s) = "RAW" -> [v |-> KnownFlagFormatRaw, err |-> ""]
      [] OTHER -> [v |-> KnownFlagFormatLabel, err |-> ""]

ParseKnownFlagFormat(s) ==
    CASE ToUpper(s) = "RAW" -> [v |-> KnownFlagFormatRaw, err |-> ""]
      [] ToUpper(s) = "LABEL" -> [v |-> KnownFlagFormatLabel, err |-> ""]
      [] OTHER -> [v |-> KnownFlagFormatRaw, err |-> ErrKnownFlagFormat]

WithExecutionMethodFormat(o, em) ==
    [o EXCEPT !.queryplanOptions = [@ EXCEPT !.executionMethodFormat = em]]

WithTargetMetadataFormat(o, tm) ==
    [o EXCEPT !.queryplanOptions = [@ EXCEPT !.targetMetadataFormat = tm]]

WithKnownFlagFormat(o, kf) ==
    [o EXCEPT !.queryplanOptions = [@ EXCEPT !.knownFlagFormat = kf]]

ExecutionMethodFlags == {"", "Raw", "on"}
TargetMetadataFlags == {"on", "RAW", "label"}
KnownFlagFlags == {"", "lAbEl", "angle"}
FullScanFlags == {"", "raw"}
ModeFlags == {"AUTO", "Plan", "profiles"}
PrintFlags == {"predicates", "FULL", "tree"}

RunFlagSets ==
    [mode : ModeFlags, print : PrintFlags, disallowUnknownStats : BOOLEAN,
     executionMethod : ExecutionMethodFlags, targetMetadata : TargetMetadataFlags,
     fullscan : FullScanFlags, knownFlag : KnownFlagFlags,
     compact : {FALSE}, inlineStats : {TRUE}, wrapWidth : {0}]

\* The standard input: text that is no plan, a plan without nodes, and a
\* plan of two nodes with statistics, the second with a field
\* ExecutionStats does not list.
RunInputs ==
    {[valid |-> FALSE, planNodes |-> <<>>],
     [valid |-> TRUE, planNodes |-> <<>>]}
    \cup {[valid |-> TRUE, planNodes |-> p] :
            p \in {q \in ChainPlans(RenderPayloads, 2) :
                     /\ q[1].executionStats.present
                     /\ q[2].executionStats.present
                     /\ DOMAIN q[2].executionStats.fields \ DeclaredStatFields # {}
                     /\ q[1].executionStats # q[2].executionStats}}

\* --custom: not given, or given with what customListToTableRenderDef
\* returns for it.
RunCustoms ==
    {[given |-> FALSE, renderDef |-> <<>>, err |-> ""],
     [given |-> TRUE, err |-> "",
      renderDef |-> <<columnRenderDef("ID", MapFormatID, inlineTypeNever),
                      columnRenderDef("Operator", MapText, inlineTypeNever),
                      columnRenderDef("Latency", MapSecsToS("latency"), inlineTypeCan)>>],
     [given |-> TRUE, renderDef |-> <<>>, err |-> ErrCustom]}

InitRun ==
    /\ call \in [op : {"run"}, flags : RunFlagSets, stdin : RunInputs, custom : RunCustoms,
                 read : {FALSE}, printMode : {""}, parsedMode : {""}, renderDef : {<<>>},
                 disallowUnknownStats : {FALSE}, inline : {FALSE}, opts : {DefaultOptions}]
    /\ pc = "run"
    /\ planNodes = <<>>
    /\ opts = DefaultOptions
    /\ qp = NilQueryPlan
    /\ stack = <<>>
    /\ tree = <<>>
    /\ lines = <<>>
    /\ result = <<>>
    /\ rows = <<>>
    /\ err = ""
    /\ ret = NoRet

\* run has ended: with the error it returned (exit "return") or printed
\* before os.Exit(1) (exit "os.Exit"), or with what it wrote.
RunEnds(e, exit, stdout) ==
    /\ ret' = [op |-> "run", err |-> e, exit |-> exit, stdout |-> stdout]
    /\ pc' = "exit"

\* --full-scan, the deprecated alias of --known-flag.
RunFullScan ==
    /\ pc = "run"
    /\ IF call.flags.fullscan # "" /\ call.flags.knownFlag # ""
       THEN RunEnds(ErrMutuallyExclusive, "os.Exit", "") /\ UNCHANGED call
       ELSE /\ call' = IF call.flags.fullscan # ""
                       THEN [call EXCEPT !.flags.knownFlag = call.flags.fullscan]
                       ELSE call
            /\ pc' = "parsePrintMode"
            /\ UNCHANGED ret
    /\ UNCHANGED <<planNodes, opts, qp, stack, tree, lines, result, rows, err>>

RunParsePrintMode ==
    /\ pc = "parsePrintMode"
    /\ LET r == parsePrintMode(call.flags.print) IN
         IF r.err # ""
         THEN RunEnds(r.err, "return", "") /\ UNCHANGED call
         ELSE /\ call' = [call EXCEPT !.printMode = r.v]
              /\ pc' = "parseExplainMode"
              /\ UNCHANGED ret
    /\ UNCHANGED <<planNodes, opts, qp, stack, tree, lines, result, rows, err>>

\* parseExplainMode, and the options --disallow-unknown-stats and --compact.
RunParseExplainMode ==
    /\ pc = "parseExplainMode"
    /\ LET r == parseExplainMode(call.flags.mode)
           o1 == IF call.flags.disallowUnknownStats THEN DisallowUnknownStats(opts) ELSE opts
           o2 == IF call.flags.compact THEN EnableCompact(o1) ELSE o1
       IN IF r.err # ""
          THEN RunEnds(r.err, "os.Exit", "") /\ UNCHANGED <<call, opts>>
          ELSE /\ call' = [call EXCEPT !.parsedMode = r.v]
               /\ opts' = o2
               /\ pc' = "ParseExecutionMethodFormat"
               /\ UNCHANGED ret
    /\ UNCHANGED <<planNodes, qp, stack, tree, lines, result, rows, err>>

RunExecutionMethod ==
    /\ pc = "ParseExecutionMethodFormat"
    /\ LET r == IF call.flags.executionMethod # ""
                THEN ParseExecutionMethodFormat(call.flags.executionMethod)
                ELSE [v |-> ExecutionMethodFormatAngle, err |-> ""]
       IN IF r.err # ""
          THEN RunEnds(r.err, "os.Exit", "") /\ UNCHANGED opts
          ELSE /\ opts' = WithExecutionMethodFormat(opts, r.v)
               /\ pc' = "ParseTargetMetadataFormat"
               /\ UNCHANGED ret
    /\ UNCHANGED <<planNodes, qp, stack, tree, lines, result, rows, err, call>>

RunTargetMetadata ==
    /\ pc = "ParseTargetMetadataFormat"
    /\ LET r == IF call.flags.targetMetadata # ""
                THEN ParseTargetMetadataFormat(call.flags.targetMetadata)
                ELSE [v |-> TargetMetadataFormatOn, err |-> ""]
       IN IF r.err # ""
          THEN RunEnds(r.err, "os.Exit", "") /\ UNCHANGED opts
          ELSE /\ opts' = WithTargetMetadataFormat(opts, r.v)
               /\ pc' = "ParseKnownFlagFormat"
               /\ UNCHANGED ret
    /\ UNCHANGED <<planNodes, qp, stack, tree, lines, result, rows, err, call>>

\* A variant of RunKnownFlag that reads the standard input before it looks
\* at --known-flag.
RunKnownFlagAfterReadAll ==
    /\ pc = "ParseKnownFlagFormat"
    /\ LET r == IF call.flags.knownFlag # ""
                THEN ParseKnownFlagFormat(call.flags.knownFlag)
                ELSE [v |-> KnownFlagFormatLabel, err |-> ""]
       IN IF r.err # ""
          THEN RunEnds(r.err, "os.Exit", "") /\ UNCHANGED opts
          ELSE /\ opts' = WithKnownFlagFormat(opts, r.v)
               /\ pc' = "ExtractQueryPlan"
               /\ UNCHANGED ret
    /\ call' = [call EXCEPT !.read = TRUE]
    /\ UNCHANGED <<planNodes, qp, stack, tree, lines, result, rows, err>>

\* ParseKnownFlagFormat, and the option --wrap-width.
RunKnownFlag ==
    /\ pc = "ParseKnownFlagFormat"
    /\ LET r == IF call.flags.knownFlag # ""
                THEN ParseKnownFlagFormat(call.flags.knownFlag)
                ELSE [v |-> KnownFlagFormatLabel, err |-> ""]
           o == WithKnownFlagFormat(opts, r.v)
       IN IF r.err # ""
          THEN RunEnds(r.err, "os.Exit", "") /\ UNCHANGED opts
          ELSE /\ opts' = IF call.flags.wrapWidth > 0
                          THEN WithWrapWidth(o, call.flags.wrapWidth) ELSE o
               /\ pc' = "ReadAll"
               /\ UNCHANGED ret
    /\ UNCHANGED <<planNodes, qp, stack, tree, lines, result, rows, err, call>>

\* b, err := io.ReadAll(os.Stdin)
RunReadAll ==
    /\ pc = "ReadAll"
    /\ call' = [call EXCEPT !.read = TRUE]
    /\ pc' = "ExtractQueryPlan"
    /\ UNCHANGED <<planNodes, opts, qp, stack, tree, lines, result, rows, err, ret>>

\* ExtractQueryPlan, the table definition, and the call of renderTreeImpl.
RunExtractQueryPlan ==
    /\ pc = "ExtractQueryPlan"
    /\ IF ~call.stdin.valid
       THEN RunEnds(ErrInvalidInput, "return", "") /\ UNCHANGED <<planNodes, call>>
       ELSE /\ planNodes' = call.stdin.planNodes
            /\ IF call.custom.given /\ call.custom.err # ""
               THEN RunEnds(call.custom.err, "return", "") /\ UNCHANGED call
               ELSE /\ call' = [call EXCEPT
                        !.op = "renderTreeImpl",
                        !.renderDef =
                            IF call.custom.given THEN call.custom.renderDef
                            ELSE withStatsToRenderDefMap(
                                   shouldRenderWithStats(call.stdin.planNodes, call.parsedMode)),
                        !.disallowUnknownStats = call.flags.disallowUnknownStats,
                        !.inline = call.flags.inlineStats,
                        !.opts = opts]
                    /\ pc' = "renderTreeImpl"
                    /\ UNCHANGED ret
    /\ UNCHANGED <<opts, qp, stack, tree, lines, result, rows, err>>

\* renderTreeImpl has returned: its error is returned, or s is written.
RunReturn ==
    /\ pc = "returned"
    /\ RunEnds(ret.err, "return", ret.s)
    /\ UNCHANGED <<planNodes, opts, qp, stack, tree, lines, result, rows, err, call>>

NextRun ==
    \/ RunFullScan
    \/ RunParsePrintMode
    \/ RunParseExplainMode
    \/ RunExecutionMethod
    \/ RunTargetMetadata
    \/ RunKnownFlag
    \/ RunReadAll
    \/ RunExtractQueryPlan
    \/ NextRender
    \/ RunReturn

SpecRun == InitRun /\ [][NextRun]_vars

\* The errors of the five enumerated flags.
FormatErrors ==
    {ErrPrintMode, ErrExplainMode, ErrExecutionMethodFormat, ErrTargetMetadataFormat,
     ErrKnownFlagFormat}

\* a and b are the same letter in the same or in the other case.
SameLetter(a, b) ==
    \/ a = b
    \/ \E k \in 1..Len(LowerLetters) :
         {a, b} = {SubSeq(LowerLetters, k, k), SubSeq(UpperLetters, k, k)}

EqualFold(s, t) ==
    /\ Len(s) = Len(t)
    /\ \A i \in 1..Len(s) : SameLetter(SubSeq(s, i, i), SubSeq(t, i, i))

Names(s, names) == \E n \in names : EqualFold(s, n)

FlagStrings ==
    ExecutionMethodFlags \cup TargetMetadataFlags \cup KnownFlagFlags \cup FullScanFlags
      \cup ModeFlags \cup PrintFlags

RunEnded == pc = "exit" /\ ret.op = "run"

\* C19: an invalid enumerated configuration string is surfaced before any
\* render work begins.  A run that ends with the error of --print, --mode,
\* --execution-method, --target-metadata or --known-flag has not read the
\* plan, has not called New and has built no tree, and has written
\* nothing; the three format parsers accept their two names in any case and
\* reject every other string, so that a run that reads the plan was given a
\* name, or nothing, for each of them.
C19_FormatErrorBeforeRender ==
    /\ (RunEnded /\ ret.err \in FormatErrors) =>
         /\ ~call.read
         /\ planNodes = <<>>
         /\ qp = NilQueryPlan
         /\ tree = <<>>
         /\ lines = <<>>
         /\ rows = <<>>
         /\ ret.stdout = ""
    /\ pc = "run" => \A s \in FlagStrings :
         /\ ParseExecutionMethodFormat(s).err = "" <=> Names(s, {"raw", "angle"})
         /\ ParseTargetMetadataFormat(s).err = "" <=> Names(s, {"raw", "on"})
         /\ ParseKnownFlagFormat(s).err = "" <=> Names(s, {"raw", "label"})
    /\ (call.op \in {"run", "renderTreeImpl"} /\ "read" \in DOMAIN call /\ call.read) =>
         /\ Names(call.flags.print, {"predicates", "typed", "full"})
         /\ Names(call.flags.mode, {"plan", "profile", "auto"})
         /\ call.flags.executionMethod = "" \/ Names(call.flags.executionMethod, {"raw", "angle"})
         /\ call.flags.targetMetadata = "" \/ Names(call.flags.targetMetadata, {"raw", "on"})
         /\ call.flags.knownFlag = "" \/ Names(call.flags.knownFlag, {"raw", "label"})

\* A run given a plan of two nodes has ended with the error of --known-flag,
\* the last of the five to be parsed, without having read the plan.
C19_Witness ==
    /\ RunEnded
    /\ ret.err = ErrKnownFlagFormat
    /\ ret.exit = "os.Exit"
    /\ call.stdin.valid
    /\ Len(call.stdin.planNodes) = 2
    /\ ~call.read
    /\ planNodes = <<>>
    /\ tree = <<>>

(***************************************************************************)
(* ProcessPlan with WithWrapWidth, on a plan whose tree has three levels   *)
(* and a node with a sibling after it, so that continuation lines are      *)
(* drawn beside a link that goes on; the titles are shorter and longer     *)
(* than the widths.                                                        *)
(***************************************************************************)
MaxWrapWidth == 9

WrapNames == {"ab", "abcde", "a%b"}

WrapPlans ==
    {<<PlanNode(0, [kind |-> RELATIONAL, displayName |-> n0], <<Link(1, "", ""), Link(2, "", "")>>, NoStats),
       PlanNode(1, [kind |-> RELATIONAL, displayName |-> n1], <<Link(3, "", "")>>, NoStats),
       PlanNode(2, [kind |-> RELATIONAL, displayName |-> n1], <<>>, NoStats),
       PlanNode(3, [kind |-> RELATIONAL, displayName |-> n3], <<>>, NoStats)>> :
       n0 \in WrapNames, n1 \in WrapNames, n3 \in WrapNames}

WrapOptions ==
    {WithWrapWidth(o, w) : o \in {DefaultOptions, EnableCompact(DefaultOptions)},
                           w \in 1..MaxWrapWidth}

InitWrap ==
    /\ planNodes \in WrapPlans
    /\ opts \in WrapOptions
    /\ pc = "New"
    /\ qp = NilQueryPlan
    /\ stack = <<>>
    /\ tree = <<>>
    /\ lines = <<>>
    /\ result = <<>>
    /\ rows = <<>>
    /\ err = ""
    /\ call = NoCall
    /\ ret = NoRet

SpecWrap == InitWrap /\ [][Next]_vars

\* The depth of node i in the tree: the root has depth 0.
RECURSIVE DepthOf(_)
DepthOf(i) == IF i = 0 \/ i \notin DOMAIN qp.parentMap THEN 0 ELSE 1 + DepthOf(qp.parentMap[i])

\* The ancestor of node i at depth k, i itself at its own depth.
RECURSIVE AncestorAt(_, _)
AncestorAt(i, k) == IF DepthOf(i) <= k THEN i ELSE AncestorAt(qp.parentMap[i], k)

\* Node i is not the last child of its parent: the link beside it goes on.
HasLaterSibling(i) ==
    LET links == planNodes[qp.parentMap[i] + 1].childLinks
    IN \E k \in 1..Len(links) - 1 : links[k].childIndex = i

\* The branch art of a continuation line of node i: for each level down to
\* its own, the link glyph where a sibling follows and a space where none
\* does, then the indentation.
ContinuationArt(i) ==
    Join([k \in 1..DepthOf(i) |->
            (IF HasLaterSibling(AncestorAt(i, k)) THEN "|" ELSE " ")
              \o Repeat(" ", opts.indentSize)], "")

\* The width C20 says the wrapper is handed for node i.
HandedWidth(i) ==
    opts.wrapWidth.v - DepthOf(i) * (opts.indentSize + 1)
      - StringWidth(IF opts.compact THEN "" ELSE " ")

RECURSIVE MaxRuneWidth(_)
MaxRuneWidth(s) ==
    IF s = "" THEN 0
    ELSE IF RuneWidth(Head(s)) > MaxRuneWidth(Tail(s)) THEN RuneWidth(Head(s))
    ELSE MaxRuneWidth(Tail(s))

\* No line of the text of row r, branch art and title, is wider than w.
FitsIn(r, w) ==
    LET ls == Split(Text(r), NL) IN \A k \in 1..Len(ls) : StringWidth(ls[k]) <= w

\* The title of r takes n lines and its branch art takes n lines.
SameLineCount(r) == Len(Split(r.TreePart, NL)) = Len(Split(r.NodeText, NL))

\* The continuation lines of r carry the link glyph where the tree goes on.
TreeNotBroken(r) ==
    LET treeLines == Split(r.TreePart, NL)
    IN \A k \in 2..Len(treeLines) : treeLines[k] = ContinuationArt(r.ID)

\* The title of r is the title of its node, wrapped at the width handed for
\* its depth.
WrappedAtHandedWidth(r) ==
    /\ Without(r.NodeText, {NL}) = planNodes[r.ID + 1].displayName
    /\ r.NodeText = Wrap(planNodes[r.ID + 1].displayName, HandedWidth(r.ID))

WrapDone == pc = "done" /\ err = "" /\ ~opts.wrapWidth.isNil /\ opts.wrapWidth.v > 0

\* C20 as stated: with a wrap width W > 0 no rendered line of a row, at any
\* depth, is wider than W; a title wrapped into n lines yields n lines of
\* branch art, whose continuation lines carry the link glyph where the tree
\* continues; the wrapper is handed W - L * (indentSize + 1) - width(sep)
\* for a node at depth L.
C20_WrapWithinWidth ==
    WrapDone =>
      \A j \in 1..Len(rows) :
        /\ FitsIn(rows[j], opts.wrapWidth.v)
        /\ SameLineCount(rows[j])
        /\ TreeNotBroken(rows[j])
        /\ WrappedAtHandedWidth(rows[j])

\* C20, amended: no rendered line of a row is wider than W when the width
\* handed for its depth is at least the width of the widest character of
\* its title; below the root a title wrapped into n lines yields n lines of
\* branch art, whose continuation lines carry the link glyph where the tree
\* continues, and the root has no branch art; the wrapper is handed
\* W - L * (indentSize + 1) - width(sep) for a node at depth L.
C20_WrapWithinWidthWhenRoom ==
    WrapDone =>
      \A j \in 1..Len(rows) :
        /\ HandedWidth(rows[j].ID) >= MaxRuneWidth(rows[j].NodeText)
             => FitsIn(rows[j], opts.wrapWidth.v)
        /\ rows[j].ID # 0 => SameLineCount(rows[j])
        /\ rows[j].ID = 0 => Without(rows[j].TreePart, {NL}) = ""
        /\ TreeNotBroken(rows[j])
        /\ WrappedAtHandedWidth(rows[j])

\* A node at depth 2, beside a link that goes on, has a title wrapped into
\* three lines at a handed width of 2, and three lines of branch art.
C20_Witness ==
    /\ WrapDone
    /\ ~opts.compact
    /\ \E j \in 1..Len(rows) :
         /\ rows[j].ID = 3
         /\ DepthOf(3) = 2
         /\ HandedWidth(3) = 2
         /\ rows[j].NodeText = "ab\ncd\ne"
         /\ rows[j].TreePart = "|  +- \n|     \n|     "
         /\ FitsIn(rows[j], opts.wrapWidth.v)

(***************************************************************************)
(* NodeTitle on its own: one node whose metadata are drawn from the keys   *)
(* NodeTitle treats specially and one ordinary key, under every            *)
(* combination of the options of queryplan.go.                             *)
(***************************************************************************)
MaxKeys == 2

\* An option that leaves o as it is.
KeepMetadata(o) == o

HideMetadata(o) == [o EXCEPT !.hideMetadata = TRUE]

TitleKeys ==
    {"call_type", "iterator_type", "scan_type", "scan_target", "distribution_table", "table",
     "execution_method", "Full scan", "split_ranges_aligned", "subquery_cluster_node", "m"}

\* The values a key is given: a flag is carried as a string or as a boolean,
\* and the scan target and the execution method may be the empty string.
TitleValues(k) ==
    CASE k = "call_type" -> {StringValue("Local")}
      [] k = "iterator_type" -> {StringValue("Hash")}
      [] k = "scan_type" -> {StringValue("IndexScan")}
      [] k = "scan_target" -> {StringValue("T"), StringValue("")}
      [] k = "distribution_table" -> {StringValue("D")}
      [] k = "table" -> {StringValue("U")}
      [] k = "execution_method" -> {StringValue("Row"), StringValue("")}
      [] k = "Full scan" ->
           {StringValue("true"), StringValue("false"), BoolValue(TRUE), BoolValue(FALSE)}
      [] k = "split_ranges_aligned" -> {StringValue("true"), StringValue("false")}
      [] k = "subquery_cluster_node" -> {StringValue("9")}
      [] OTHER -> {StringValue("X")}

RECURSIVE MetadataOver(_)
MetadataOver(S) ==
    IF S = {} THEN {NoMetadata}
    ELSE LET k == CHOOSE x \in S : TRUE
         IN {[x \in S |-> IF x = k THEN v ELSE f[x]] :
               f \in MetadataOver(S \ {k}), v \in TitleValues(k)}

\* Sets of more than MaxKeys keys: two flags and a field; a flag, a field and
\* a call type; a scan with its type and two targets, with a field or with
\* the execution method.
TitleKeySets ==
    {{"Full scan", "split_ranges_aligned", "m"},
     {"Full scan", "m", "call_type"},
     {"scan_type", "scan_target", "table", "m"},
     {"scan_type", "scan_target", "distribution_table", "execution_method"}}

TitleMetadata ==
    UNION {MetadataOver(S) :
             S \in {T \in SUBSET TitleKeys : Cardinality(T) <= MaxKeys} \cup TitleKeySets}

ReverseSeq(s) == [i \in 1..Len(s) |-> s[Len(s) + 1 - i]]

\* The range over the metadata yields the keys in some order or in the
\* opposite one.
TitleNodes ==
    UNION {{WithMetadata(PlanNode(0, [kind |-> RELATIONAL, displayName |-> "Scan"], <<>>, NoStats),
                  f, r) : r \in {SetToSeq(DOMAIN f), ReverseSeq(SetToSeq(DOMAIN f))}} :
             f \in TitleMetadata}

\* The callbacks: none, and one that returns two labels that are not in
\* lexicographic order.
TitleInlineStatsFuncs ==
    {NilInlineStatsFunc, [isNil |-> FALSE, result |-> << <<"z=1", "a=2">> >>]}

TitleOptions ==
    {[ZeroOption EXCEPT !.executionMethodFormat = em, !.targetMetadataFormat = tm,
                        !.knownFlagFormat = kf, !.compact = c, !.inlineStatsFunc = f] :
       em \in {ExecutionMethodFormatRaw, ExecutionMethodFormatAngle},
       tm \in {TargetMetadataFormatRaw, TargetMetadataFormatOn},
       kf \in {KnownFlagFormatRaw, KnownFlagFormatLabel},
       c \in BOOLEAN, f \in TitleInlineStatsFuncs}

\* The option NodeTitle ends with once it has applied the opts of the call:
\* call.o with HideMetadata() applied when the caller passes it.
TitleOption == IF call.hide THEN HideMetadata(call.o) ELSE call.o

InitTitle ==
    /\ planNodes \in {<<n>> : n \in TitleNodes}
    /\ call \in [op : {"NodeTitle"}, o : TitleOptions, hide : BOOLEAN]
    /\ opts = DefaultOptions
    /\ pc = "NodeTitle"
    /\ qp = NilQueryPlan
    /\ stack = <<>>
    /\ tree = <<>>
    /\ lines = <<>>
    /\ result = <<>>
    /\ rows = <<>>
    /\ err = ""
    /\ ret = NoRet

CallNodeTitle ==
    /\ pc = "NodeTitle"
    /\ ret' = [op |-> "NodeTitle", title |-> NodeTitle(planNodes[1], TitleOption)]
    /\ pc' = "returned"
    /\ UNCHANGED <<planNodes, opts, qp, stack, tree, lines, result, rows, err, call>>

NextTitle == CallNodeTitle

SpecTitle == InitTitle /\ [][NextTitle]_vars

\* NodeTitle has returned the title of the node.
TitleReturned == pc = "returned" /\ ret.op = "NodeTitle"

(***************************************************************************)
(* Claims about NodeTitle.                                                 *)
(***************************************************************************)
\* The separating spaces of a title whose keys and values have no comma,
\* colon, bracket or parenthesis of their own: after a comma, after a colon,
\* before the execution-method part and before the parenthesised tail.
SeparatingSpaces(title) ==
    {s \in {", ", ": ", " <", " (", "> "} : Index(title, s) # 0}

\* C21: with Compact enabled NodeTitle inserts no separating space, neither
\* between the operator clause, the execution-method part and the
\* parenthesised tail, nor after a comma of the tail, nor after the colon of
\* a key:value field, under every combination of the three formats.
C21_CompactNoSeparatingSpace ==
    (TitleReturned /\ TitleOption.compact) => SeparatingSpaces(ret.title) = {}

\* Compact leaves one separating space only: the one after the colon of the
\* scan_target field, which is shown when the target format is Raw and the
\* metadata are not hidden.
C21_CompactButScanTarget ==
    (TitleReturned /\ TitleOption.compact) =>
        /\ SeparatingSpaces(ret.title) \subseteq {": "}
        /\ SeparatingSpaces(ret.title) = {": "} <=>
             /\ "scan_target" \in DOMAIN planNodes[1].metadata
             /\ TitleOption.targetMetadataFormat = TargetMetadataFormatRaw
             /\ ~TitleOption.hideMetadata

\* What a title shows of the value of key k: the string itself, and for
\* scan_type the string without its suffix "Scan".
ShownValue(node, k) ==
    IF k = "scan_type" THEN TrimSuffix(GetStringValue(node.metadata, k), "Scan")
    ELSE GetStringValue(node.metadata, k)

\* The keys whose value is somewhere in the title.
KeysShown(node, title) ==
    {k \in DOMAIN node.metadata :
       ShownValue(node, k) # "" /\ Index(title, ShownValue(node, k)) # 0}

\* The known flag keys that are somewhere in the title.
FlagsShown(title) ==
    {k \in {knownBooleanFlagKeys[i] : i \in 1..Len(knownBooleanFlagKeys)} : Index(title, k) # 0}

\* The keys the operator clause and the execution-method part are made of
\* under option o.
OperatorKeys(o) ==
    {"call_type", "iterator_type", "scan_type"}
      \cup (IF o.targetMetadataFormat = TargetMetadataFormatOn
            THEN {targetMetadataKeys[i] : i \in 1..Len(targetMetadataKeys)} ELSE {})
      \cup (IF o.executionMethodFormat = ExecutionMethodFormatAngle
            THEN {"execution_method"} ELSE {})

TailEntries(title, o) ==
    LET i == Index(title, "(")
    IN IF i = 0 \/ ~HasSuffix(title, ")") THEN <<>>
       ELSE Split(SubSeq(title, i + 1, Len(title) - 1), IF o.compact THEN "," ELSE ", ")

IsFieldEntry(e) == Index(e, ":") # 0

IsLabelEntry(e) == Index(e, ":") = 0 /\ Index(e, "=") = 0

IsSortedStrings(xs) == \A i \in 1..(Len(xs) - 1) : ~StrLess(xs[i + 1], xs[i])

\* The labels the callback of option o returns for the node, none without a
\* callback.
InlineStatsOf(node, o) ==
    IF o.inlineStatsFunc.isNil THEN <<>> ELSE o.inlineStatsFunc.result[node.index + 1]

\* The keys of the node that are to give a label or a field under option o.
TailKeys(node, o) ==
    {k \in DOMAIN node.metadata :
       /\ ~o.hideMetadata
       /\ k \notin {"call_type", "iterator_type", "scan_type", "subquery_cluster_node"}
       /\ k = "execution_method" => o.executionMethodFormat = ExecutionMethodFormatRaw
       /\ Contains(targetMetadataKeys, k) => o.targetMetadataFormat = TargetMetadataFormatRaw
       /\ (Contains(knownBooleanFlagKeys, k) /\ o.knownFlagFormat = KnownFlagFormatLabel)
             => GetStringValue(node.metadata, k) = "true"}

\* C24: the parenthesised tail lists the labels in lexicographic order, then
\* the key:value fields in lexicographic order, then the inline-stats labels
\* in the order the callback returned them; the parentheses are there
\* exactly when there is a label, a field or an inline stat; an empty
\* execution-method part or an empty tail adds no separator.
C24_TailOrder ==
    TitleReturned =>
        LET es     == TailEntries(ret.title, TitleOption)
            inline == InlineStatsOf(planNodes[1], TitleOption)
            own    == SubSeq(es, 1, Len(es) - Len(inline))
            labels == SelectSeq(own, IsLabelEntry)
            fields == SelectSeq(own, IsFieldEntry)
        IN /\ Len(es) >= Len(inline)
           /\ SubSeq(es, Len(es) - Len(inline) + 1, Len(es)) = inline
           /\ own = labels \o fields
           /\ IsSortedStrings(labels)
           /\ IsSortedStrings(fields)
           /\ Len(own) = Cardinality(TailKeys(planNodes[1], TitleOption))
           /\ Index(ret.title, "(") # 0 <=>
                (TailKeys(planNodes[1], TitleOption) # {} \/ Len(inline) > 0)
           /\ ~HasSuffix(ret.title, " ") /\ ~HasPrefix(ret.title, " ")
           /\ Index(ret.title, "  ") = 0
           /\ Index(ret.title, "()") = 0

\* A title with two labels, a field and two inline stats, ranged over in an
\* order that is not the lexicographic one.
C24_Witness ==
    /\ TitleReturned
    /\ \E i, j \in 1..Len(planNodes[1].metadataRange) :
         /\ i < j
         /\ planNodes[1].metadataRange[i] = "split_ranges_aligned"
         /\ planNodes[1].metadataRange[j] = "Full scan"
    /\ ret.title = "Scan (Full scan, split_ranges_aligned, m: X, z=1, a=2)"

\* A flag value that is true, carried as the string "true" or as a boolean.
IsTrueValue(v) == (v.kind = "string" /\ v.s = "true") \/ (v.kind = "bool" /\ v.b)

\* The text of a flag value.
ValueText(v) == IF v.kind = "bool" THEN (IF v.b THEN "true" ELSE "false") ELSE v.s

\* How the title renders the known flag key k of the node under option o:
\* under Label a bare label when the value is true and nothing when it is
\* false, under Raw the field k: value.
FlagRendered(title, node, o, k) ==
    LET es  == TailEntries(title, o)
        sep == IF o.compact THEN "" ELSE " "
    IN IF o.knownFlagFormat = KnownFlagFormatLabel
       THEN /\ Contains(es, k) <=> IsTrueValue(node.metadata[k])
            /\ \A i \in 1..Len(es) : ~HasPrefix(es[i], k \o ":")
       ELSE /\ Contains(es, k \o ":" \o sep \o ValueText(node.metadata[k]))
            /\ ~Contains(es, k)

\* C25: under KnownFlagFormat Label each known flag key of the metadata is a
\* bare label when its value is true and is omitted when its value is
\* false, whether the value is a boolean or the string "true"/"false"; under
\* KnownFlagFormat Raw it is an ordinary key: value field.
C25_KnownFlagLabels ==
    (TitleReturned /\ ~call.hide) =>
        \A k \in DOMAIN planNodes[1].metadata :
            Contains(knownBooleanFlagKeys, k)
              => FlagRendered(ret.title, planNodes[1], TitleOption, k)

\* The same for the flags whose value is carried as a string.
C25_StringFlagLabels ==
    (TitleReturned /\ ~call.hide) =>
        \A k \in DOMAIN planNodes[1].metadata :
            (Contains(knownBooleanFlagKeys, k) /\ planNodes[1].metadata[k].kind = "string")
              => FlagRendered(ret.title, planNodes[1], TitleOption, k)

\* The operator clause of a title: what comes before the execution-method
\* part and the parenthesised tail.
OperatorClause(title) ==
    LET a == Index(title, "<")
        p == Index(title, "(")
        e == IF a # 0 /\ (p = 0 \/ a < p) THEN a ELSE p
    IN IF e = 0 THEN title ELSE SubSeq(title, 1, e - 1)

\* The entries of the tail that carry the name nm: the label nm and the
\* fields nm: value.
TailNamed(title, o, nm) ==
    LET es == TailEntries(title, o)
    IN {i \in 1..Len(es) : es[i] = nm \/ HasPrefix(es[i], nm \o ":")}

\* The entries of the tail in which the non-empty string v occurs.
TailWith(title, o, v) ==
    LET es == TailEntries(title, o)
    IN {i \in 1..Len(es) : v # "" /\ Index(es[i], v) # 0}

\* k is the first of targetMetadataKeys whose value is a non-empty string.
IsFirstTarget(node, k) ==
    \E i \in 1..Len(targetMetadataKeys) :
        /\ targetMetadataKeys[i] = k
        /\ GetStringValue(node.metadata, k) # ""
        /\ \A j \in 1..(i - 1) : GetStringValue(node.metadata, targetMetadataKeys[j]) = ""

\* The keys about which C26 and its amended form say the same: call_type,
\* iterator_type, execution_method, the target keys other than by way of
\* scan_type, subquery_cluster_node and the ordinary keys.
KeyRenderedOnce(title, node, o, k) ==
    LET v  == GetStringValue(node.metadata, k)
        op == OperatorClause(title)
    IN CASE k \in {"call_type", "iterator_type"} ->
              /\ Index(op, v) # 0
              /\ TailNamed(title, o, k) = {} /\ TailWith(title, o, v) = {}
         [] k = "execution_method" ->
              IF o.executionMethodFormat = ExecutionMethodFormatAngle
              THEN /\ v # "" => Index(title, "<" \o v \o ">") # 0
                   /\ TailNamed(title, o, k) = {} /\ TailWith(title, o, v) = {}
              ELSE /\ Index(title, "<") = 0
                   /\ Cardinality(TailNamed(title, o, k)) = 1
         [] Contains(targetMetadataKeys, k) ->
              IF o.targetMetadataFormat = TargetMetadataFormatOn
              THEN /\ TailNamed(title, o, k) = {} /\ TailWith(title, o, v) = {}
                   /\ IsFirstTarget(node, k) <=> (v # "" /\ HasSuffix(op, "on " \o v \o
                          (IF HasSuffix(op, " ") THEN " " ELSE "")))
                   /\ ~IsFirstTarget(node, k) => (v = "" \/ Index(title, v) = 0)
              ELSE /\ Index(op, " on ") = 0
                   /\ k # "scan_target" => Cardinality(TailNamed(title, o, k)) = 1
                   /\ k = "scan_target" =>
                        Contains(TailEntries(title, o),
                                 ShownValue(node, "scan_type") \o ": " \o v)
         [] k = "subquery_cluster_node" ->
              TailNamed(title, o, k) = {} /\ Index(title, v) = 0
         [] k = "scan_type" -> Index(op, ShownValue(node, k)) # 0 /\ TailNamed(title, o, k) = {}
         [] OTHER -> Cardinality(TailNamed(title, o, k)) = 1

PayloadShape(value) ==
    LET split == Split(value, TAB)
    IN /\ Len(split) = 3
       /\ Count(value, NUL) = 1
       /\ HasSuffix(value, NUL)
       /\ JSONUnmarshalString(split[2]).ok
       /\ split[1] = Repeat(NL, Count(JSONUnmarshalString(split[2]).v, NL))
       /\ JSONUnmarshalLink(TrimSuffix(split[3], NUL)).ok

\* The values buildTree has set or added: all of the tree, but for the root
\* value when buildTree returned for the root without setting it.
BuiltPayloads ==
    {tree[i].value : i \in {j \in 1..Len(tree) : j > 1 \/ IsVisible(qp, NilLink)}}

\* C23: every payload buildTree builds has the shape above, whatever the
\* title and the link strings are; hence every fragment ProcessPlan gets
\* from the tree splits on tab into exactly 3 fields and ProcessPlan never
\* fails with the "unexpected format" error.
C23_PayloadsNeverUnexpected ==
    /\ pc \in {"StringWithOptions", "decode", "done"} /\ ~qp.isNil
         => \A v \in BuiltPayloads : PayloadShape(v)
    /\ pc = "decode" =>
         \A i \in 1..Len(lines) : IsBlank(lines[i]) \/ Len(Split(lines[i], TAB)) = 3
    /\ pc = "done" => err # ErrUnexpectedFormat

\* The shape of the payloads alone.
C23_PayloadShape ==
    (pc \in {"StringWithOptions", "decode", "done"} /\ ~qp.isNil)
        => \A v \in BuiltPayloads : PayloadShape(v)

\* The fragments and the error, for a plan whose root is visible.
C23_VisibleRootNeverUnexpected ==
    (~qp.isNil /\ IsVisible(qp, NilLink)) =>
        /\ pc = "decode" =>
             \A i \in 1..Len(lines) : IsBlank(lines[i]) \/ Len(Split(lines[i], TAB)) = 3
        /\ pc = "done" => err # ErrUnexpectedFormat

\* The child links of node i of the plan that the sequence picks out with a
\* condition on the link, grouped by link type in their original order,
\* each with its child.
GroupedLinks(plan, i, Keep(_)) ==
    LET kept == SelectSeq(plan[i + 1].childLinks, Keep)
    IN [t \in {kept[k].type : k \in 1..Len(kept)} |->
          LET oft == SelectSeq(kept, LAMBDA l : l.type = t)
          IN [k \in 1..Len(oft) |->
                [ChildLink |-> oft[k], Child |-> plan[oft[k].childIndex + 1]]]]

IsScalarLink(plan, l) == plan[l.childIndex + 1].kind = SCALAR

\* A predicate link: to a node named Function, of a type that ends with
\* Condition or is Split Range.
IsPredicateLink(plan, l) ==
    /\ plan[l.childIndex + 1].displayName = "Function"
    /\ (HasSuffix(l.type, "Condition") \/ l.type = "Split Range")

\* C27: the ChildLinks of a row map each link type to the node's resolved
\* child links of that type whose child is SCALAR and which are not
\* predicate links, in the node's original order; links to RELATIONAL
\* children and predicate links are not in the mapping.
C27_ChildLinksNonPredicate ==
    Returned =>
      \A i \in 1..Len(rows) :
          rows[i].ChildLinks =
            GroupedLinks(planNodes, rows[i].ID,
                         LAMBDA l : IsScalarLink(planNodes, l) /\ ~IsPredicateLink(planNodes, l))

\* C27 (amended): the ChildLinks of a row map each link type to the node's
\* resolved child links of that type whose child is SCALAR, predicate links
\* among them, in the node's original order; links to RELATIONAL children
\* are not in the mapping.
C27_ChildLinksScalar ==
    Returned =>
      \A i \in 1..Len(rows) :
          /\ rows[i].ChildLinks =
               GroupedLinks(planNodes, rows[i].ID, LAMBDA l : IsScalarLink(planNodes, l))
          /\ \A t \in DOMAIN rows[i].ChildLinks :
               \A k \in 1..Len(rows[i].ChildLinks[t]) :
                   rows[i].ChildLinks[t][k].Child.kind = SCALAR

\* A row whose node has three links to SCALAR children, a predicate link
\* among them and a link that is not a predicate link: all three are in its
\* ChildLinks, under two types.
C27_Witness ==
    /\ Returned
    /\ \E i \in 1..Len(rows) :
         LET links == planNodes[rows[i].ID + 1].childLinks
         IN /\ Len(links) = 3
            /\ \E k \in 1..Len(links) : IsPredicateLink(planNodes, links[k])
            /\ \E k \in 1..Len(links) :
                 IsScalarLink(planNodes, links[k]) /\ ~IsPredicateLink(planNodes, links[k])
            /\ Cardinality(DOMAIN rows[i].ChildLinks) = 2
            /\ \E t \in DOMAIN rows[i].ChildLinks : Len(rows[i].ChildLinks[t]) = 2

(***************************************************************************)
(* RowWithPredicates.Text called on the rows ProcessPlan returned: for the *)
(* plans and wrap widths of SpecWrap, and without wrapping for plans whose *)
(* display names have newlines of their own.                               *)
(***************************************************************************)
TextNames == {"a", "a" \o NL \o "b", "a" \o NL, NL \o "b"}

TextPlans ==
    {<<PlanNode(0, [kind |-> RELATIONAL, displayName |-> n0], <<Link(1, "", ""), Link(2, "", "")>>, NoStats),
       PlanNode(1, [kind |-> RELATIONAL, displayName |-> n1], <<>>, NoStats),
       PlanNode(2, [kind |-> RELATIONAL, displayName |-> n2], <<>>, NoStats)>> :
       n0 \in TextNames, n1 \in TextNames, n2 \in TextNames}

InitText ==
    /\ \/ planNodes \in WrapPlans /\ opts \in WrapOptions
       \/ planNodes \in TextPlans /\ opts \in OptionSets
    /\ pc = "New"
    /\ qp = NilQueryPlan
    /\ stack = <<>>
    /\ tree = <<>>
    /\ lines = <<>>
    /\ result = <<>>
    /\ rows = <<>>
    /\ err = ""
    /\ call = NoCall
    /\ ret = NoRet

\* r.Text() for one of the rows returned.
CallText ==
    /\ pc = "done"
    /\ err = ""
    /\ \E i \in 1..Len(rows) :
         /\ call' = [op |-> "Text", row |-> i]
         /\ ret' = [op |-> "Text", s |-> Text(rows[i])]
    /\ UNCHANGED <<planNodes, opts, pc, qp, stack, tree, lines, result, rows, err>>

NextText ==
    \/ Next
    \/ CallText

SpecText == InitText /\ [][NextText]_vars

\* Text has returned for row call.row.
TextReturned == pc = "done" /\ ret.op = "Text"

DepthPlans == SharedChildPlans({"Scan"}) \cup TreePlans

InitDepth ==
    /\ planNodes \in DepthPlans
    /\ opts \in OptionSets
    /\ pc = "New"
    /\ qp = NilQueryPlan
    /\ stack = <<>>
    /\ tree = <<>>
    /\ lines = <<>>
    /\ result = <<>>
    /\ rows = <<>>
    /\ err = ""
    /\ call = NoCall
    /\ ret = NoRet

\* ProcessPlan has neither returned nor exhausted the stack: it can take a
\* step.
Running == pc \notin {"done", "stack overflow"}

\* Weak fairness of the steps of Next: of each step whose enabling is its
\* guard on pc alone, and of Next as a whole with Running written for the
\* enabling of a step.
FairSteps ==
    /\ WF_vars(CallNew)
    /\ WF_vars(ProcessPlanBegin)
    /\ WF_vars(ProcessPlanReturn)
    /\ (<>[]Running => []<><<Next>>_vars)

SpecDepth == InitDepth /\ [][Next]_vars /\ FairSteps

\* The number of links of the longest walk from node i over shown links,
\* counted up to fuel links.
RECURSIVE LongestWalk(_, _, _)
LongestWalk(plan, i, fuel) ==
    LET ls == ShownLinks(plan, i)
    IN IF fuel = 0 \/ Len(ls) = 0 THEN 0
       ELSE 1 + (CHOOSE m \in 0..fuel :
                   /\ \E k \in 1..Len(ls) : m = LongestWalk(plan, ls[k].childIndex, fuel - 1)
                   /\ \A k \in 1..Len(ls) : m >= LongestWalk(plan, ls[k].childIndex, fuel - 1))

\* The depth of the plan: the longest walk from the root, which has fewer
\* links than the plan has nodes unless it passes twice through a node.
PlanDepth(plan) == IF RootShown(plan) THEN LongestWalk(plan, 0, Len(plan)) ELSE 0

HasVisibleCycle(plan) == PlanDepth(plan) = Len(plan)

\* The level of the call of buildTree that is about to be made.
RecursionLevel == IF pc = "buildTree" THEN stack[Len(stack)].level ELSE 0

ConcurrentPlans ==
    {[TwiceNodes EXCEPT ![1] = WithMetadata(TwiceNodes[1],
                                 StringFields([k \in {"execution_method", "m"} |->
                                                IF k = "m" THEN "X" ELSE "Row"]),
                                 <<"m", "execution_method">>)]}

\* The local variables of one call of ProcessPlan.
Locals(p, o, st, t, ls, res, rs, e) ==
    [pc |-> p, opts |-> o, stack |-> st, tree |-> t, lines |-> ls, result |-> res,
     rows |-> rs, err |-> e]

\* The local variables of a call of ProcessPlan with options o that has
\* taken no step.
FreshLocals(o) == Locals("ProcessPlan", o, <<>>, <<>>, <<>>, <<>>, <<>>, "")

InitConcurrent ==
    /\ planNodes \in ConcurrentPlans
    /\ call \in [op : {"ProcessPlan"}, o : {DefaultOptions} \X OptionSets, run : {1},
                  alone : {<<>>}, other : {NoRet}, interleaved : {FALSE}]
    /\ opts = call.o[1]
    /\ pc = "New"
    /\ qp = NilQueryPlan
    /\ stack = <<>>
    /\ tree = <<>>
    /\ lines = <<>>
    /\ result = <<>>
    /\ rows = <<>>
    /\ err = ""
    /\ ret = NoRet

\* What a call of ProcessPlan that has returned gave its caller.
ProcessPlanReturned == [op |-> "ProcessPlan", rows |-> rows, err |-> err]

\* The first call has returned: the second call, alone too, with the second
\* render's options and the same qp.
ProcessPlanAloneAgain ==
    /\ pc = "done"
    /\ call.run = 1
    /\ ~qp.isNil
    /\ call' = [call EXCEPT !.run = 2, !.alone = <<ProcessPlanReturned>>]
    /\ opts' = call.o[2]
    /\ pc' = "ProcessPlan"
    /\ stack' = <<>>
    /\ tree' = <<>>
    /\ lines' = <<>>
    /\ result' = <<>>
    /\ rows' = <<>>
    /\ err' = ""
    /\ UNCHANGED <<planNodes, qp, ret>>

\* Both calls have returned: two goroutines call ProcessPlan with the same
\* qp, the first with the first render's options.
ProcessPlanTogether ==
    /\ pc = "done"
    /\ call.run = 2
    /\ call' = [call EXCEPT !.run = 3, !.alone = Append(@, ProcessPlanReturned),
                            !.other = FreshLocals(call.o[2])]
    /\ opts' = call.o[1]
    /\ pc' = "ProcessPlan"
    /\ stack' = <<>>
    /\ tree' = <<>>
    /\ lines' = <<>>
    /\ result' = <<>>
    /\ rows' = <<>>
    /\ err' = ""
    /\ UNCHANGED <<planNodes, qp, ret>>

\* A call of ProcessPlan at p has begun and has not returned.
PartWay(p) == p \notin {"ProcessPlan", "done"}

\* The scheduler lets the other goroutine take the next steps: each call's
\* o, tree, result and position are its own.
Switch ==
    /\ call.run \in {3, 4}
    /\ call' = [call EXCEPT !.run = 7 - @,
                            !.other = Locals(pc, opts, stack, tree, lines, result, rows, err),
                            !.interleaved = @ \/ (PartWay(pc) /\ PartWay(call.other.pc))]
    /\ pc' = call.other.pc
    /\ opts' = call.other.opts
    /\ stack' = call.other.stack
    /\ tree' = call.other.tree
    /\ lines' = call.other.lines
    /\ result' = call.other.result
    /\ rows' = call.other.rows
    /\ err' = call.other.err
    /\ UNCHANGED <<planNodes, qp, ret>>

\* The links the read operations are called with: the nil link buildTree
\* passes for the root, and the child links of the root.
OperationLinks ==
    {NilLink} \cup {planNodes[1].childLinks[i] : i \in 1..Len(planNodes[1].childLinks)}

\* The return of a read operation of QueryPlan that takes a link.
LinkOperation(link) ==
    \/ ret' = [op |-> "GetNodeByChildLink", v |-> GetNodeByChildLink(qp, link)]
    \/ ret' = [op |-> "GetParentNodeByChildLink", v |-> GetParentNodeByChildLink(qp, link)]
    \/ ret' = [op |-> "IsVisible", v |-> IsVisible(qp, link)]
    \/ ret' = [op |-> "IsPredicate", v |-> IsPredicate(qp, link)]
    \/ ret' = [op |-> "GetLinkType", v |-> GetLinkType(qp, link)]
    \/ ret' = [op |-> "ResolveChildLink", v |-> ResolveChildLink(qp, link)]

\* The return of a read operation that takes a node or an index, and of
\* NodeTitle, called with the root.
NodeOperation ==
    \/ ret' = [op |-> "GetNodeByIndex", v |-> GetNodeByIndex(qp, 0)]
    \/ ret' = [op |-> "VisibleChildLinks", v |-> VisibleChildLinks(qp, GetNodeByIndex(qp, 0))]
    \/ ret' = [op |-> "NodeTitle",
               v |-> NodeTitle(GetNodeByIndex(qp, 0), opts.queryplanOptions)]

\* A map in which a read of the missing key k has stored the zero value.
StoreLookup(m, k) ==
    IF k \in DOMAIN m THEN m ELSE [x \in DOMAIN m \cup {k} |-> IF x = k THEN 0 ELSE m[x]]

\* A variant of CallOperation in which the read of the parent map stores
\* the zero value under a key it does not find.
CallOperationStoringLookups ==
    /\ ~qp.isNil
    /\ \/ \E link \in OperationLinks :
            /\ LinkOperation(link)
            /\ qp' = [qp EXCEPT !.parentMap = StoreLookup(@, link.childIndex)]
       \/ NodeOperation /\ qp' = qp
    /\ UNCHANGED <<planNodes, opts, pc, stack, tree, lines, result, rows, err, call>>

\* One call of a read operation of QueryPlan, or of NodeTitle, at any time
\* after New has returned.
CallOperation ==
    /\ ~qp.isNil
    /\ \/ \E link \in OperationLinks : LinkOperation(link)
       \/ NodeOperation
    /\ UNCHANGED <<planNodes, opts, pc, qp, stack, tree, lines, result, rows, err, call>>

NextConcurrent ==
    \/ Next
    \/ ProcessPlanAloneAgain
    \/ ProcessPlanTogether
    \/ Switch
    \/ CallOperation

SpecConcurrent == InitConcurrent /\ [][NextConcurrent]_vars

\* The local variables of goroutine k of the two that run together.
LocalsOf(k) ==
    IF (call.run = 3 /\ k = 1) \/ (call.run = 4 /\ k = 2)
    THEN Locals(pc, opts, stack, tree, lines, result, rows, err)
    ELSE call.other

\* Both of the calls that ran together have returned.
BothReturned == call.run \in {3, 4} /\ LocalsOf(1).pc = "done" /\ LocalsOf(2).pc = "done"

\* C30: once New has returned, no step (no read operation of QueryPlan, no
\* step of ProcessPlan, no call of NodeTitle) changes the node list, a node
\* or the parent map; and when two calls of ProcessPlan over the same
\* QueryPlan, their steps interleaved in any order, have both returned, each
\* has returned the rows and the error it returned when it ran alone.
C30_ReadOnlyAfterNew ==
    /\ [][~qp.isNil => (qp' = qp /\ planNodes' = planNodes)]_vars
    /\ [](BothReturned =>
            \A k \in 1..2 : /\ LocalsOf(k).rows = call.alone[k].rows
                            /\ LocalsOf(k).err = call.alone[k].err)

\* Both calls have returned after each took steps while the other was part
\* way through, the two with different options, and a read operation was
\* called in between; the rows are those of a plan with predicates.
C30_Witness ==
    /\ BothReturned
    /\ call.interleaved
    /\ call.o[1] # call.o[2]
    /\ Len(rows) = 4
    /\ call.other.rows # rows
    /\ \E i \in 1..Len(rows) : Len(rows[i].Predicates) > 0
    /\ ret.op = "GetLinkType"

====
